---- MODULE Spec2Model ----
(***************************************************************************)
(* Sharded S3-FIFO memory engine (s3fifo, shard, entryList, ghostFreqRing) *)
(* with its death row, the TTL wrappers of the cache and the singleflight  *)
(* layer (Cache.getSet).                                                   *)
(*                                                                         *)
(* Entries are heap objects: `memory.heap` is the sequence of every entry  *)
(* allocated so far and a pointer is an index into it (Nil = 0).  The map, *)
(* the list links, head/tail and the death-row slots all hold pointers, so *)
(* an entry that left the map while a slot or a link still names it is     *)
(* visible as such.                                                        *)
(***************************************************************************)
EXTENDS Integers, Sequences, FiniteSets, TLC

\* ---------------------------------------------------------------- bounds
NumKeys == 2
MaxAlloc == 3
MaxTime == 3
MaxTTL == 1
ConfigSize == 1
MaxOps == 4
MaxFillOps == 5
MaxExpiryOps == 4
MaxChurnOps == 2
MaxDirectOps == 2
MaxFetchCalls == 2
NumFetchers == 2
MaxLockOps == 3
MaxRaceOps == 2
MaxTierOps == 3
MaxSizeK == 2050
MaxProcs == 2
MaxSeqOps == 3
MaxSeqTries == 1
MaxSameOps == 3
MaxGhostOps == 4
MaxStaleOps == 4
MaxRingOps == 3
MaxReviveOps == 3

\* ------------------------------------------------------ program constants
maxShards == 2048
maxFreq == 7
smallQueueRatio == 247
deathRowSize == 8
ghostRingSize == 256
GOMAXPROCS == 2
bloomBitsPerEntry == 24
bloomProbes == 17

Nil == 0
NoVal == 0
Keys == 1..NumKeys
\* The churn workload needs enough keys to fill the death row and wrap it.
ChurnKeys == 1..(ConfigSize + deathRowSize + 2)
\* The workload that deletes a key on death row and sets it again needs two
\* laps of the death row after the fill.
StaleKeys == 1..(ConfigSize + deathRowSize + 4)
AllKeys == Keys \cup ChurnKeys \cup StaleKeys
TTLs == 0..MaxTTL
Queues == {"small", "main"}

Min2(a, b) == IF a < b THEN a ELSE b
Max2(a, b) == IF a > b THEN a ELSE b

\* ------------------------------------------------------------ hashing
\* hasher: a fixed injective, nonzero stand-in for the 64-bit mix of an
\* integer key.
Hash(k) == 1000 + 37 * k

\* ------------------------------------------------------------ bloom filter
newBloomFilter(cap) ==
    [m |-> bloomBitsPerEntry * Max2(cap, 1), bits |-> {}, entries |-> 0]

BloomPositions(b, h) ==
    { (h + i * ((h \div b.m) + 1)) % b.m : i \in 0..(bloomProbes - 1) }

BloomContains(b, h) == BloomPositions(b, h) \subseteq b.bits

BloomAdd(b, h) ==
    [b EXCEPT !.bits = @ \cup BloomPositions(b, h), !.entries = @ + 1]

BloomReset(b) == [b EXCEPT !.bits = {}, !.entries = 0]

\* ------------------------------------------------------------ ghost ring
\* The 256-slot arrays are kept sparse: slot i is slots[i+1] once written,
\* and the zero value (hash 0, freq 0) before.
emptyRing == [slots |-> << >>, pos |-> 0]

RingSlot(r, i) ==
    IF i + 1 <= Len(r.slots) THEN r.slots[i + 1] ELSE [h |-> 0, f |-> 0]

ringAdd(r, h, freq) ==
    [slots |-> IF r.pos + 1 <= Len(r.slots)
                 THEN [r.slots EXCEPT ![r.pos + 1] = [h |-> h, f |-> freq]]
                 ELSE Append(r.slots, [h |-> h, f |-> freq]),
     pos |-> (r.pos + 1) % ghostRingSize]

\* lookup returning the match in the highest slot.
ringLookupHighest(r, h) ==
    LET hits == { i \in 0..(ghostRingSize - 1) : RingSlot(r, i).h = h }
    IN IF hits = {} THEN [f |-> 0, ok |-> FALSE]
       ELSE LET i == CHOOSE x \in hits : \A y \in hits : x >= y
            IN [f |-> RingSlot(r, i).f, ok |-> TRUE]

\* lookup that never finds a record.
ringLookupMiss(r, h) == [f |-> 0, ok |-> FALSE]

\* lookup scans from slot 0 upwards and returns the first match.
ringLookup(r, h) ==
    LET hits == { i \in 0..(ghostRingSize - 1) : RingSlot(r, i).h = h }
    IN IF hits = {} THEN [f |-> 0, ok |-> FALSE]
       ELSE LET i == CHOOSE x \in hits : \A y \in hits : x <= y
            IN [f |-> RingSlot(r, i).f, ok |-> TRUE]

\* ------------------------------------------------------------ construction
RECURSIVE bitsLen(_)
bitsLen(n) == IF n = 0 THEN 0 ELSE 1 + bitsLen(n \div 2)

RECURSIVE Pow2(_)
Pow2(n) == IF n = 0 THEN 1 ELSE 2 * Pow2(n - 1)

EffectiveSize(size) == IF size <= 0 THEN 16384 ELSE size

\* The shard count left as the minimum, not rounded to a power of two.
numShardsUnrounded(size, procs) ==
    LET sz == EffectiveSize(size)
    IN Min2(Min2(Max2(procs * 16, sz \div 256), Max2(1, sz \div 1024)), maxShards)

numShardsFor(size, procs) ==
    LET sz == EffectiveSize(size)
        n == Min2(Min2(Max2(procs * 16, sz \div 256), Max2(1, sz \div 1024)), maxShards)
    IN Pow2(bitsLen(n) - 1)

shardCapFor(size, procs) ==
    LET sz == EffectiveSize(size)
        n == numShardsFor(size, procs)
    IN (sz + n - 1) \div n

emptyList == [head |-> Nil, tail |-> Nil, len |-> 0]

newShard(scap) ==
    [mu |-> Nil,
     entries |-> [k \in AllKeys |-> Nil],
     small |-> emptyList,
     main |-> emptyList,
     ghostActive |-> newBloomFilter(scap),
     ghostAging |-> newBloomFilter(scap),
     ghostFreqRng |-> emptyRing,
     ghostCap |-> scap,
     deathRow |-> [i \in 0..(deathRowSize - 1) |-> Nil],
     deathRowPos |-> 0,
     capacity |-> scap,
     smallThresh |-> (scap * smallQueueRatio) \div 1000,
     warmupComplete |-> FALSE]

newS3FIFO(size) ==
    LET n == numShardsFor(size, GOMAXPROCS)
        scap == shardCapFor(size, GOMAXPROCS)
    IN [shards |-> [i \in 0..(n - 1) |-> newShard(scap)],
        numShards |-> n,
        totalEntries |-> 0,
        capacity |-> EffectiveSize(size),
        heap |-> << >>,
        panicked |-> FALSE]

shardIdx(c, key) == key % c.numShards

\* A shard operation works on a view: the heap, one shard, the shared
\* counter and the crash flag.
View(c, i) ==
    [heap |-> c.heap, s |-> c.shards[i], total |-> c.totalEntries,
     cap |-> c.capacity, panic |-> c.panicked]

Lift(c, i, st) ==
    [c EXCEPT !.heap = st.heap, !.shards[i] = st.s,
              !.totalEntries = st.total, !.panicked = st.panic]

\* ------------------------------------------------------------ entryList
pushBack(st, q, e) ==
    LET l == st.s[q]
        h1 == [st.heap EXCEPT ![e].prev = l.tail, ![e].next = Nil]
        h2 == IF l.tail # Nil THEN [h1 EXCEPT ![l.tail].next = e] ELSE h1
        l2 == [head |-> IF l.tail # Nil THEN l.head ELSE e,
               tail |-> e,
               len |-> l.len + 1]
    IN [st EXCEPT !.heap = h2, !.s[q] = l2]

remove(st, q, e) ==
    LET l == st.s[q]
        p == st.heap[e].prev
        n == st.heap[e].next
        h1 == IF p # Nil THEN [st.heap EXCEPT ![p].next = n] ELSE st.heap
        h2 == IF n # Nil THEN [h1 EXCEPT ![n].prev = p] ELSE h1
        h3 == [h2 EXCEPT ![e].prev = Nil, ![e].next = Nil]
        l2 == [head |-> IF p # Nil THEN l.head ELSE n,
               tail |-> IF n # Nil THEN l.tail ELSE p,
               len |-> l.len - 1]
    IN [st EXCEPT !.heap = h3, !.s[q] = l2]

\* ------------------------------------------------------------ entries
newEntry(key, value, expiryNano, h) ==
    [key |-> key, value |-> value, prev |-> Nil, next |-> Nil, hash |-> h,
     expiryNano |-> expiryNano, freq |-> 0, peakFreq |-> 0,
     inSmall |-> FALSE, onDeathRow |-> FALSE]

\* freq.Add(1) below maxFreq, lifting peakFreq when the new value passes it.
bumpFreq(heap, e) ==
    IF heap[e].freq < maxFreq
      THEN LET newFreq == heap[e].freq + 1
           IN IF newFreq > heap[e].peakFreq
                THEN [heap EXCEPT ![e].freq = newFreq, ![e].peakFreq = newFreq]
                ELSE [heap EXCEPT ![e].freq = newFreq]
      ELSE heap

isExpired(ent, now) == ent.expiryNano # 0 /\ now > ent.expiryNano

\* ------------------------------------------------------------ ghost
\* addToGhost recording the peak of every hash new to the active filter.
addToGhostAnyPeak(st, h, peakFreq) ==
    LET fresh == ~BloomContains(st.s.ghostActive, h)
        s1 == IF fresh
                THEN [st.s EXCEPT !.ghostActive = BloomAdd(@, h),
                                  !.ghostFreqRng = ringAdd(@, h, peakFreq)]
                ELSE st.s
        s2 == IF s1.ghostActive.entries >= s1.ghostCap
                THEN [s1 EXCEPT !.ghostActive = BloomReset(s1.ghostAging),
                                !.ghostAging = s1.ghostActive]
                ELSE s1
    IN [st EXCEPT !.s = s2]

\* addToGhost whose rotation empties the active filter without keeping it
\* as the aging one.
addToGhostForgetful(st, h, peakFreq) ==
    LET fresh == ~BloomContains(st.s.ghostActive, h)
        s1 == IF fresh
                THEN [st.s EXCEPT !.ghostActive = BloomAdd(@, h),
                                  !.ghostFreqRng = IF peakFreq >= 2
                                                     THEN ringAdd(@, h, peakFreq)
                                                     ELSE @]
                ELSE st.s
        s2 == IF s1.ghostActive.entries >= s1.ghostCap
                THEN [s1 EXCEPT !.ghostActive = BloomReset(s1.ghostActive)]
                ELSE s1
    IN [st EXCEPT !.s = s2]

addToGhost(st, h, peakFreq) ==
    LET fresh == ~BloomContains(st.s.ghostActive, h)
        s1 == IF fresh
                THEN [st.s EXCEPT !.ghostActive = BloomAdd(@, h),
                                  !.ghostFreqRng = IF peakFreq >= 2
                                                     THEN ringAdd(@, h, peakFreq)
                                                     ELSE @]
                ELSE st.s
        s2 == IF s1.ghostActive.entries >= s1.ghostCap
                THEN [s1 EXCEPT !.ghostActive = BloomReset(s1.ghostAging),
                                !.ghostAging = s1.ghostActive]
                ELSE s1
    IN [st EXCEPT !.s = s2]

\* ------------------------------------------------------------ death row
sendToDeathRow(st, e) ==
    LET old == st.s.deathRow[st.s.deathRowPos]
        st1 == IF old # Nil
                 THEN LET d == [st EXCEPT !.s.entries[st.heap[old].key] = Nil]
                          g == addToGhost(d, st.heap[old].hash, st.heap[old].peakFreq)
                      IN [g EXCEPT !.heap[old].onDeathRow = FALSE]
                 ELSE st
    IN [st1 EXCEPT !.heap[e].onDeathRow = TRUE,
                   !.s.deathRow[st.s.deathRowPos] = e,
                   !.s.deathRowPos = (st.s.deathRowPos + 1) % deathRowSize,
                   !.total = @ - 1]

\* ------------------------------------------------------------ eviction
\* Reading e.freq through a nil head is a nil dereference: the process
\* panics with the shard lock held.
\* The element of a singleton; the element is computed once, where it is
\* bound.
Only(S) == CHOOSE x \in S : TRUE

\* One pass of evictFromMain's loop sending the head to death row whatever
\* its freq.
mainIterEvictAny(st) ==
    LET e == st.s.main.head
    IN [st |-> sendToDeathRow(remove(st, "main", e), e), done |-> TRUE]

\* One pass of evictFromMain's loop over a head that is not nil; done when
\* the pass returns from the function.
mainIter(st) ==
    LET e == st.s.main.head
        f == st.heap[e].freq
        r == remove(st, "main", e)
    IN IF f = 0
         THEN IF st.heap[e].peakFreq >= 4
                THEN [st |-> pushBack([r EXCEPT !.heap[e].freq = 1,
                                                !.heap[e].inSmall = TRUE],
                                      "small", e),
                      done |-> TRUE]
                ELSE [st |-> sendToDeathRow(r, e), done |-> TRUE]
         ELSE [st |-> pushBack([r EXCEPT !.heap[e].freq = f - 1], "main", e),
               done |-> FALSE]

RECURSIVE evictFromMain(_)
evictFromMain(st) ==
    IF st.panic \/ ~(st.s.main.len > 0) THEN st
    ELSE IF st.s.main.head = Nil THEN [st EXCEPT !.panic = TRUE]
    ELSE Only({ IF r.done THEN r.st ELSE evictFromMain(r.st) : r \in {mainIter(st)} })

\* One pass of evictFromSmall's loop that promotes the head whatever its
\* freq.
smallIterPromoteAny(st) ==
    LET e == st.s.small.head
    IN [st |-> pushBack([remove(st, "small", e) EXCEPT !.heap[e].freq = 0,
                                                        !.heap[e].inSmall = FALSE],
                        "main", e),
        done |-> FALSE]

\* One pass of evictFromSmall's loop over a head that is not nil, up to the
\* check of main.len against mcap.
smallIter(st) ==
    LET e == st.s.small.head
        f == st.heap[e].freq
        r == remove(st, "small", e)
    IN IF f < 2
         THEN [st |-> sendToDeathRow(r, e), done |-> TRUE]
         ELSE [st |-> pushBack([r EXCEPT !.heap[e].freq = 0,
                                         !.heap[e].inSmall = FALSE],
                               "main", e),
               done |-> FALSE]

mcapOf(st) == (st.s.capacity * 9) \div 10

RECURSIVE evictFromSmall(_)
evictFromSmall(st) ==
    IF st.panic \/ ~(st.s.small.len > 0) THEN st
    ELSE IF st.s.small.head = Nil THEN [st EXCEPT !.panic = TRUE]
    ELSE Only({ IF r.done THEN r.st
                ELSE Only({ evictFromSmall(n) :
                            n \in { IF r.st.s.main.len > mcapOf(r.st)
                                      THEN evictFromMain(r.st)
                                      ELSE r.st } })
              : r \in {smallIter(st)} })

\* The eviction of an admission at capacity, evicting from main whenever
\* main holds an entry.
evictionRoundMainFirst(st) ==
    IF st.s.main.len > 0 THEN evictFromMain(st)
    ELSE IF st.s.small.len > 0 THEN evictFromSmall(st)
    ELSE st

\* The eviction of an admission at capacity.
evictionRound(st) ==
    IF st.s.main.len > 0 /\ st.s.small.len <= st.s.smallThresh
      THEN evictFromMain(st)
      ELSE IF st.s.small.len > 0
             THEN evictFromSmall(st)
             ELSE st

\* Ghost membership looking at the active filter only.
ghostHitActiveOnly(st, h) == BloomContains(st.s.ghostActive, h)

ghostHit(st, h) ==
    BloomContains(st.s.ghostActive, h) \/ BloomContains(st.s.ghostAging, h)

\* ------------------------------------------------------------ shard.get
\* Resurrection that leaves the global counter alone.
resurrectUncounted(st, key) ==
    LET ent == st.s.entries[key]
    IN IF ent = Nil \/ ~st.heap[ent].onDeathRow
         THEN [st |-> st, val |-> NoVal, ok |-> ent # Nil]
         ELSE LET st2 == [st EXCEPT !.s.deathRow =
                                       [j \in DOMAIN @ |-> IF @[j] = ent THEN Nil ELSE @[j]],
                                    !.heap[ent].onDeathRow = FALSE,
                                    !.heap[ent].inSmall = FALSE,
                                    !.heap[ent].freq = 3,
                                    !.heap[ent].peakFreq = 3]
              IN [st |-> pushBack(st2, "main", ent),
                  val |-> st.heap[ent].value, ok |-> TRUE]

resurrectFromDeathRow(st, key) ==
    LET ent == st.s.entries[key]
    IN IF ent = Nil \/ ~st.heap[ent].onDeathRow
         THEN [st |-> st, val |-> NoVal, ok |-> ent # Nil]
         ELSE LET slots == { i \in 0..(deathRowSize - 1) : st.s.deathRow[i] = ent }
                  st1 == IF slots = {} THEN st
                         ELSE LET i == CHOOSE x \in slots : \A y \in slots : x <= y
                              IN [st EXCEPT !.s.deathRow[i] = Nil]
                  st2 == [st1 EXCEPT !.heap[ent].onDeathRow = FALSE,
                                     !.heap[ent].inSmall = FALSE,
                                     !.heap[ent].freq = 3,
                                     !.heap[ent].peakFreq = 3]
                  st3 == pushBack(st2, "main", ent)
              IN [st |-> [st3 EXCEPT !.total = @ + 1],
                  val |-> st.heap[ent].value, ok |-> TRUE]

shardGet(st, key, now) ==
    LET ent == st.s.entries[key]
    IN IF ent = Nil THEN [st |-> st, val |-> NoVal, ok |-> FALSE]
       ELSE IF st.heap[ent].onDeathRow THEN resurrectFromDeathRow(st, key)
       ELSE IF isExpired(st.heap[ent], now)
              THEN [st |-> st, val |-> NoVal, ok |-> FALSE]
       ELSE [st |-> [st EXCEPT !.heap = bumpFreq(st.heap, ent)],
             val |-> st.heap[ent].value, ok |-> TRUE]

\* ------------------------------------------------------------ shard.set
\* setExisting with the value left alone while the entry awaits eviction.
setExistingSkipDeathRow(st, ent, value, expiryNano) ==
    [st EXCEPT !.heap = bumpFreq([st.heap EXCEPT
                                     ![ent].value = IF st.heap[ent].onDeathRow
                                                      THEN @ ELSE value,
                                     ![ent].expiryNano = expiryNano],
                                 ent)]

\* setExisting that counts the update as a new entry.
setExistingCounted(st, ent, value, expiryNano) ==
    [st EXCEPT !.heap = bumpFreq([st.heap EXCEPT ![ent].value = value,
                                                 ![ent].expiryNano = expiryNano],
                                 ent),
               !.total = @ + 1]

\* The update of an entry the map already holds.
setExisting(st, ent, value, expiryNano) ==
    [st EXCEPT !.heap = bumpFreq([st.heap EXCEPT ![ent].value = value,
                                                 ![ent].expiryNano = expiryNano],
                                 ent)]

\* isFull one entry early.
isFullEarly(st) == st.total + 1 >= st.cap

isFull(st) == st.total >= st.cap

\* setWithHash from the map lookup on; found is what s.entries.Load(key)
\* returned.
setAfterLoad(st, key, value, expiryNano, hash, found) ==
    IF found # Nil
      THEN setExisting(st, found, value, expiryNano)
      ELSE
        LET h == IF hash = 0 THEN Hash(key) ELSE hash
            ent == Len(st.heap) + 1
            a == [st EXCEPT !.heap = Append(@, newEntry(key, value, expiryNano, h))]
            full == isFull(st)
        IN IF ~st.s.warmupComplete /\ ~full
             THEN LET b == pushBack([a EXCEPT !.heap[ent].inSmall = TRUE], "small", ent)
                  IN [b EXCEPT !.s.entries[key] = ent, !.total = @ + 1]
             ELSE
               LET w == [a EXCEPT !.s.warmupComplete = TRUE]
                   inGhost == ghostHit(w, h)
                   peak == ringLookup(w.s.ghostFreqRng, h)
                   g == IF full
                          THEN IF inGhost /\ peak.ok
                                 THEN [w EXCEPT !.heap[ent].inSmall = FALSE,
                                                !.heap[ent].freq = peak.f,
                                                !.heap[ent].peakFreq = peak.f]
                                 ELSE [w EXCEPT !.heap[ent].inSmall = ~inGhost]
                          ELSE [w EXCEPT !.heap[ent].inSmall = TRUE]
                   v == IF full THEN evictionRound(g) ELSE g
               IN IF v.panic THEN v
                  ELSE LET b == pushBack(v, IF v.heap[ent].inSmall THEN "small" ELSE "main", ent)
                       IN [b EXCEPT !.s.entries[key] = ent, !.total = @ + 1]

setWithHash(st, key, value, expiryNano, hash) ==
    setAfterLoad(st, key, value, expiryNano, hash, st.s.entries[key])

\* ------------------------------------------------------------ shard.delete
\* shard.delete that leaves an entry awaiting eviction alone.
shardDeleteQueued(st, key) ==
    LET ent == st.s.entries[key]
    IN IF ent = Nil \/ st.heap[ent].onDeathRow THEN st
       ELSE LET r == remove(st, IF st.heap[ent].inSmall THEN "small" ELSE "main", ent)
            IN [r EXCEPT !.s.entries[key] = Nil, !.total = @ - 1]

shardDelete(st, key) ==
    LET ent == st.s.entries[key]
    IN IF ent = Nil THEN st
       ELSE LET r == remove(st, IF st.heap[ent].inSmall THEN "small" ELSE "main", ent)
            IN [r EXCEPT !.s.entries[key] = Nil, !.total = @ - 1]

\* ------------------------------------------------------------ shard.flush
entriesSize(s) == Cardinality({ k \in AllKeys : s.entries[k] # Nil })

\* shard.flush that forgets the ghost.
shardFlushKeepGhost(s) ==
    [n |-> entriesSize(s),
     s |-> [s EXCEPT !.entries = [k \in AllKeys |-> Nil],
                     !.small = emptyList,
                     !.main = emptyList,
                     !.deathRow = [i \in 0..(deathRowSize - 1) |-> Nil],
                     !.deathRowPos = 0]]

shardFlush(s) ==
    [n |-> entriesSize(s),
     s |-> [s EXCEPT !.entries = [k \in AllKeys |-> Nil],
                     !.small = emptyList,
                     !.main = emptyList,
                     !.ghostActive = BloomReset(@),
                     !.ghostAging = BloomReset(@),
                     !.ghostFreqRng = emptyRing,
                     !.deathRow = [i \in 0..(deathRowSize - 1) |-> Nil],
                     !.deathRowPos = 0]]

\* ------------------------------------------------------------ s3fifo
\* An entry that nothing references any more (map, queue heads and tails,
\* links of referenced entries, death-row slots) is garbage: its memory is
\* reclaimed, modelled by blanking the heap cell.
Roots(c) ==
    UNION { ({ c.shards[i].entries[k] : k \in AllKeys }
             \cup { c.shards[i].deathRow[j] : j \in 0..(deathRowSize - 1) }
             \cup { c.shards[i].small.head, c.shards[i].small.tail,
                    c.shards[i].main.head, c.shards[i].main.tail })
            : i \in DOMAIN c.shards } \ {Nil}

RECURSIVE Reach(_, _)
Reach(c, S) ==
    LET T == (S \cup { c.heap[e].prev : e \in S } \cup { c.heap[e].next : e \in S }) \ {Nil}
    IN IF T = S THEN S ELSE Reach(c, T)

collect(c) ==
    LET live == Reach(c, Roots(c))
    IN [c EXCEPT !.heap = [e \in DOMAIN c.heap |->
                              IF e \in live THEN c.heap[e]
                              ELSE newEntry(0, NoVal, 0, 0)]]

s3get(c, key, now) ==
    LET i == shardIdx(c, key)
        r == shardGet(View(c, i), key, now)
    IN [c |-> collect(Lift(c, i, r.st)), val |-> r.val, ok |-> r.ok]

s3set(c, key, value, expiryNano) ==
    LET i == shardIdx(c, key)
    IN collect(Lift(c, i, setWithHash(View(c, i), key, value, expiryNano, 0)))

s3del(c, key) ==
    LET i == shardIdx(c, key)
    IN collect(Lift(c, i, shardDelete(View(c, i), key)))

RECURSIVE SumSizes(_, _)
SumSizes(c, n) ==
    IF n = 0 THEN 0 ELSE entriesSize(c.shards[n - 1]) + SumSizes(c, n - 1)

s3len(c) == SumSizes(c, c.numShards)

RECURSIVE SumFlushed(_, _)
SumFlushed(c, n) ==
    IF n = 0 THEN 0 ELSE shardFlush(c.shards[n - 1]).n + SumFlushed(c, n - 1)

s3flush(c) ==
    [c |-> collect([c EXCEPT !.shards = [i \in DOMAIN c.shards |-> shardFlush(c.shards[i]).s],
                             !.totalEntries = 0]),
     n |-> SumFlushed(c, c.numShards)]

\* ------------------------------------------------------------ TTL wrappers
\* time.Time is a tick count; the zero Time is 0 and the clock starts at 1.
timeToNano(t) == IF t = 0 THEN 0 ELSE t

\* expiry with a zero ttl never falling back to the default.
expiryNoDefault(ttl, defaultTTL, now) ==
    IF ttl <= 0 THEN 0 ELSE now + ttl

expiry(ttl, defaultTTL, now) ==
    LET t == IF ttl <= 0 THEN defaultTTL ELSE ttl
    IN IF t <= 0 THEN 0 ELSE now + t

expiryNano(ttl, defaultTTL, now) ==
    LET t == IF ttl <= 0 THEN defaultTTL ELSE ttl
    IN IF t <= 0 THEN 0 ELSE now + t

cacheSet(c, key, value, ttl, defaultTTL, now) ==
    s3set(c, key, value, timeToNano(expiry(ttl, defaultTTL, now)))

\* ------------------------------------------------------------ state
VARIABLES
    memory,      \* the s3fifo engine (Cache.memory) with its entry heap
    defaultTTL,  \* Cache.defaultTTL
    now,         \* time.Now()
    flights,     \* Cache.flights: key -> in-flight call (Nil when absent)
    calls,       \* the flightCall objects allocated so far
    pc,          \* position of each fetching goroutine inside getSet
    fkey,        \* key argument of the goroutine's getSet
    fcall,       \* the call record LoadOrCompute handed to the goroutine
    fval,        \* local val / err of the goroutine
    fret,        \* what each goroutine's last getSet returned
    fcount,      \* getSet calls started by each goroutine
    last,        \* the operation that completed last and its result
    ops,         \* operations performed so far
    fill,        \* distinct keys set since the engine was last empty
    loaded,      \* per key, the goroutines whose loader was invoked
    directVals,  \* per key, the values stored by a direct Set
    disturbed,   \* keys removed from the map under the fetching goroutines
    loaderFailed, \* some loader returned an error
    getLocals,   \* locals ent and newFreq of a goroutine inside shard.get
    store,       \* TieredCache.Store: what the persistence layer holds
    built,       \* newS3FIFO: cfg.size, GOMAXPROCS and the sizing computed from them
    seqs         \* an entry's seqlock: sequence, value words, the goroutines in it

flightVars == <<flights, calls, pc, fkey, fcall, fval, fret, fcount>>
flightHist == <<loaded, directVals, disturbed, loaderFailed>>
unitVars == <<built, seqs>>
auxVars == <<getLocals, store, built, seqs>>
vars == <<memory, defaultTTL, now, flights, calls, pc, fkey, fcall, fval,
          fret, fcount, last, ops, fill, loaded, directVals, disturbed,
          loaderFailed, getLocals, store, built, seqs>>

Fetchers == 1..NumFetchers
\* Singleflight is per key: the goroutines all fetch the same key.
FlightKeys == {1}
LoaderVal(t) == 10 + t
NoErr == "nil"
LoaderErr == "loader error"
\* What a failing loader hands back next to its error.
FailVal(t) == 20 + t

\* getSet storing whatever the loader returned.
storeLoadedAlways(c, key, val, err, dttl, t) == cacheSet(c, key, val, 0, dttl, t)

\* getSet after loader(): the value is stored only when err is nil, under
\* the default TTL.
storeLoaded(c, key, val, err, dttl, t) ==
    IF err = NoErr THEN cacheSet(c, key, val, 0, dttl, t) ELSE c

HasEntry(c, key) == c.shards[shardIdx(c, key)].entries[key] # Nil

EntryOf(c, key) == c.heap[c.shards[shardIdx(c, key)].entries[key]]

\* Where key's map entry sits: absent, on death row, expired, small or main.
Where(c, key, t) ==
    IF ~HasEntry(c, key) THEN "absent"
    ELSE IF EntryOf(c, key).onDeathRow THEN "deathRow"
    ELSE IF isExpired(EntryOf(c, key), t) THEN "expired"
    ELSE IF EntryOf(c, key).inSmall THEN "small"
    ELSE "main"

GhostEmpty(c) ==
    \A i \in DOMAIN c.shards :
        /\ c.shards[i].ghostActive.bits = {}
        /\ c.shards[i].ghostActive.entries = 0
        /\ c.shards[i].ghostAging.bits = {}
        /\ c.shards[i].ghostAging.entries = 0
        /\ c.shards[i].ghostFreqRng = emptyRing

Lost(c, d) == { k \in AllKeys : HasEntry(c, k) /\ ~HasEntry(d, k) }

NoLast == [op |-> "none", key |-> 0, val |-> NoVal, ok |-> FALSE,
           ttl |-> 0, was |-> "absent", err |-> NoErr, fault |-> FALSE]

NoGet == [ent |-> Nil, newFreq |-> 0]
NoStore == [k \in AllKeys |-> [found |-> FALSE, val |-> NoVal, expiry |-> 0]]

\* An entry's sequence counter and value; a value takes two words of
\* storage, v being held as <<v, v>>.  Each goroutine has its position in
\* storeValue or loadValue, its locals and what its last loadValue returned.
ZeroWords == <<0, 0>>
NoSeqLocal == [v |-> 0, s1 |-> 0, w |-> ZeroWords, tries |-> 0, ok |-> FALSE, ret |-> "none"]
newSeqEntry ==
    [seq |-> 0, value |-> ZeroWords,
     pc |-> [t \in 1..NumFetchers |-> "idle"],
     loc |-> [t \in 1..NumFetchers |-> NoSeqLocal],
     written |-> {0}, lastDone |-> 0, overlapped |-> FALSE]

\* What newS3FIFO is given, and what it computes from it.
Config(size, procs) == [size |-> size, procs |-> procs, numShards |-> 0, scap |-> 0]
Sizing(size, procs) ==
    [size |-> size, procs |-> procs,
     numShards |-> numShardsFor(size, procs),
     scap |-> shardCapFor(size, procs)]

\* The record of a completed operation; `was` is where the key's entry sat
\* before it (for flush: whether the ghost held anything).
Done(op, key, val, ok, ttl) ==
    [op |-> IF memory'.panicked THEN "panic" ELSE op,
     key |-> key, val |-> val, ok |-> ok, ttl |-> ttl, err |-> NoErr,
     fault |-> FALSE,
     was |-> IF key \in AllKeys THEN Where(memory, key, now)
             ELSE IF GhostEmpty(memory) THEN "absent" ELSE "ghost"]

InitCache(size, dttl) ==
    /\ memory = newS3FIFO(size)
    /\ defaultTTL = dttl
    /\ now = 1
    /\ flights = [k \in FlightKeys |-> Nil]
    /\ calls = << >>
    /\ pc = [t \in Fetchers |-> "idle"]
    /\ fkey = [t \in Fetchers |-> 1]
    /\ fcall = [t \in Fetchers |-> Nil]
    /\ fval = [t \in Fetchers |-> [val |-> NoVal, err |-> "nil"]]
    /\ fret = [t \in Fetchers |-> [val |-> NoVal, err |-> NoErr, key |-> 0]]
    /\ fcount = [t \in Fetchers |-> 0]
    /\ last = NoLast
    /\ ops = 0
    /\ fill = [clean |-> TRUE, keys |-> {}]
    /\ loaded = [k \in FlightKeys |-> << >>]
    /\ directVals = [k \in FlightKeys |-> {}]
    /\ disturbed = {}
    /\ loaderFailed = FALSE
    /\ getLocals = [t \in Fetchers |-> NoGet]
    /\ store = NoStore
    /\ seqs = newSeqEntry

InitWith(size, dttl) == InitCache(size, dttl) /\ built = Sizing(size, GOMAXPROCS)

Init == InitWith(ConfigSize, 0)

\* The engine never inspects a value, so the value written is fixed by the
\* state: always different from the one the key's entry holds.
NextVal(c, key) ==
    IF HasEntry(c, key) /\ EntryOf(c, key).value = 1 THEN 2 ELSE 1

\* An admission allocates one entry; the heap is capped.
CanSet(c, key, maxAlloc) == HasEntry(c, key) \/ Len(c.heap) < maxAlloc

\* Behaviours are explored up to a number of operations.
Budget(n) == ops < n /\ ops' = ops + 1

\* ------------------------------------------------------------ operations
GetOp(key) ==
    /\ ~memory.panicked
    /\ LET r == s3get(memory, key, now)
       IN /\ memory' = r.c
          /\ last' = Done("get", key, r.val, r.ok, 0)
    /\ UNCHANGED <<defaultTTL, now>>
    /\ UNCHANGED flightVars
    /\ UNCHANGED flightHist
    /\ UNCHANGED auxVars

SetOp(key, ttl, maxAlloc) ==
    /\ ~memory.panicked
    /\ CanSet(memory, key, maxAlloc)
    /\ memory' = cacheSet(memory, key, NextVal(memory, key), ttl, defaultTTL, now)
    /\ last' = Done("set", key, NextVal(memory, key), TRUE, ttl)
    /\ UNCHANGED <<defaultTTL, now>>
    /\ UNCHANGED flightVars
    /\ UNCHANGED flightHist
    /\ UNCHANGED auxVars

DeleteOp(key) ==
    /\ ~memory.panicked
    /\ memory' = s3del(memory, key)
    /\ last' = Done("delete", key, NoVal, FALSE, 0)
    /\ UNCHANGED <<defaultTTL, now>>
    /\ UNCHANGED flightVars
    /\ UNCHANGED flightHist
    /\ UNCHANGED auxVars

FlushOp ==
    /\ ~memory.panicked
    /\ LET r == s3flush(memory)
       IN /\ memory' = r.c
          /\ last' = Done("flush", 0, r.n, TRUE, 0)
    /\ UNCHANGED <<defaultTTL, now>>
    /\ UNCHANGED flightVars
    /\ UNCHANGED flightHist
    /\ UNCHANGED auxVars

TickOp ==
    /\ ~memory.panicked
    /\ now < MaxTime
    /\ now' = now + 1
    /\ last' = [NoLast EXCEPT !.op = "tick"]
    /\ UNCHANGED <<memory, defaultTTL>>
    /\ UNCHANGED flightVars
    /\ UNCHANGED flightHist
    /\ UNCHANGED auxVars

Get(key) == GetOp(key) /\ Budget(MaxOps) /\ UNCHANGED fill
Set(key, ttl) == SetOp(key, ttl, MaxAlloc) /\ Budget(MaxOps) /\ UNCHANGED fill
Delete(key) == DeleteOp(key) /\ Budget(MaxOps) /\ UNCHANGED fill
Flush == FlushOp /\ Budget(MaxOps) /\ UNCHANGED fill
Tick == TickOp /\ Budget(MaxOps) /\ UNCHANGED fill

\* getSet run by one goroutine with nothing interleaved: lookup, record,
\* re-check, then the loader and the store.
FetchHit(key) ==
    /\ ~memory.panicked
    /\ Budget(MaxOps)
    /\ LET r1 == s3get(memory, key, now)
       IN /\ r1.ok
          /\ memory' = r1.c
          /\ last' = Done("fetch", key, r1.val, TRUE, 0)
    /\ UNCHANGED <<defaultTTL, now, fill>>
    /\ UNCHANGED flightVars
    /\ UNCHANGED flightHist
    /\ UNCHANGED auxVars

FetchMiss(key, err) ==
    /\ ~memory.panicked
    /\ Budget(MaxOps)
    /\ LET r1 == s3get(memory, key, now)
           r2 == s3get(r1.c, key, now)
       IN /\ ~r1.ok
          /\ IF r2.ok
               THEN /\ memory' = r2.c
                    /\ last' = Done("fetch", key, r2.val, TRUE, 0)
             ELSE /\ err = NoErr => CanSet(r2.c, key, MaxAlloc)
                  /\ memory' = storeLoaded(r2.c, key, NextVal(r2.c, key), err,
                                           defaultTTL, now)
                  /\ last' = IF err # NoErr
                               THEN Done("fetchErr", key, NoVal, FALSE, 0)
                               ELSE Done("fetchLoad", key, NextVal(r2.c, key), TRUE, 0)
    /\ UNCHANGED <<defaultTTL, now, fill>>
    /\ UNCHANGED flightVars
    /\ UNCHANGED flightHist
    /\ UNCHANGED auxVars

Next ==
    \/ \E k \in Keys : Get(k)
    \/ \E k \in Keys, ttl \in TTLs : Set(k, ttl)
    \/ \E k \in Keys : Delete(k)
    \/ Flush
    \/ Tick
    \/ \E k \in Keys : FetchHit(k)
    \/ \E k \in Keys, err \in {NoErr, LoaderErr} : FetchMiss(k, err)

Spec == Init /\ [][Next]_vars

\* ------------------------------------------------------------ filling
\* An engine one entry larger, filled by sets with gets and flushes in
\* between and no delete; `fill` follows the distinct keys set since the
\* engine was last empty, until they outnumber the capacity.
InitFill == InitWith(ConfigSize + 1, 0)
FillKeys == 1..(ConfigSize + 2)
FillAlloc == ConfigSize + 3

FillAfterSet(key) ==
    IF fill.clean /\ Cardinality(fill.keys \cup {key}) <= memory.capacity
      THEN [fill EXCEPT !.keys = @ \cup {key}]
      ELSE [clean |-> FALSE, keys |-> {}]

FillSet(key) ==
    SetOp(key, 0, FillAlloc) /\ Budget(MaxFillOps) /\ fill' = FillAfterSet(key)
FillGet(key) == GetOp(key) /\ Budget(MaxFillOps) /\ UNCHANGED fill
FillFlush == FlushOp /\ Budget(MaxFillOps) /\ fill' = [clean |-> TRUE, keys |-> {}]

NextFill ==
    \/ \E k \in FillKeys : FillSet(k)
    \/ \E k \in FillKeys : FillGet(k)
    \/ FillFlush

SpecFill == InitFill /\ [][NextFill]_vars

\* ------------------------------------------------------------ TTL
\* The cache built with any default TTL (negative, zero, positive) and set
\* called on one key with any ttl, at any time.
ConfigTTLs == (0 - 1)..MaxTTL

InitExpiry == \E d \in ConfigTTLs : InitWith(ConfigSize, d)

ExpirySet(ttl) == SetOp(1, ttl, MaxAlloc) /\ Budget(MaxExpiryOps) /\ UNCHANGED fill
ExpiryTick == TickOp /\ Budget(MaxExpiryOps) /\ UNCHANGED fill

NextExpiry ==
    \/ \E ttl \in ConfigTTLs : ExpirySet(ttl)
    \/ ExpiryTick

SpecExpiry == InitExpiry /\ [][NextExpiry]_vars

\* ------------------------------------------------------------ churn
\* A long run of admissions of keys never seen before (key n is the n-th
\* admission), with a few gets and deletes of the oldest keys and flushes in
\* between: deep enough to fill the death row, wrap it and feed the ghost.
ChurnSet ==
    /\ Len(memory.heap) + 1 \in ChurnKeys
    /\ SetOp(Len(memory.heap) + 1, 0, Cardinality(ChurnKeys))
    /\ UNCHANGED <<ops, fill>>

ChurnGet(key) ==
    /\ key <= ConfigSize + 1
    /\ HasEntry(memory, key)
    /\ GetOp(key) /\ Budget(MaxChurnOps) /\ UNCHANGED fill

ChurnDelete(key) ==
    /\ key <= ConfigSize + 1
    /\ HasEntry(memory, key)
    /\ DeleteOp(key) /\ Budget(MaxChurnOps) /\ UNCHANGED fill

ChurnFlush == FlushOp /\ Budget(MaxChurnOps) /\ UNCHANGED fill

NextChurn ==
    \/ ChurnSet
    \/ \E k \in ChurnKeys : ChurnGet(k)
    \/ \E k \in ChurnKeys : ChurnDelete(k)
    \/ ChurnFlush

SpecChurn == Init /\ [][NextChurn]_vars

\* ------------------------------------------------------------ returning keys
\* The churn of fresh keys with the oldest keys read before it starts and,
\* once it has wrapped the death row, deleted or, when evicted from the map,
\* set again: keys that return while the ghost remembers them.
GhostAlloc == Cardinality(ChurnKeys) + MaxGhostOps

GhostGet(key) ==
    /\ key <= ConfigSize + 1
    /\ Len(memory.heap) <= ConfigSize + 1
    /\ HasEntry(memory, key)
    /\ GetOp(key) /\ Budget(MaxGhostOps) /\ UNCHANGED fill

GhostDelete(key) ==
    /\ key <= ConfigSize + 1
    /\ Len(memory.heap) > ConfigSize + deathRowSize
    /\ HasEntry(memory, key)
    /\ DeleteOp(key) /\ Budget(MaxGhostOps) /\ UNCHANGED fill

GhostSet(key) ==
    /\ key <= ConfigSize + 1
    /\ ~HasEntry(memory, key)
    /\ Len(memory.heap) > ConfigSize + deathRowSize
    /\ SetOp(key, 0, GhostAlloc) /\ Budget(MaxGhostOps) /\ UNCHANGED fill

NextGhost ==
    \/ ChurnSet
    \/ \E k \in ChurnKeys : GhostGet(k)
    \/ \E k \in ChurnKeys : GhostDelete(k)
    \/ \E k \in ChurnKeys : GhostSet(k)

SpecGhost == Init /\ [][NextGhost]_vars

\* ------------------------------------------------------------ singleflight
\* Goroutines inside Cache.getSet, one shared-memory step at a time, with
\* direct Set and Delete calls in between.
FlightAlloc == MaxDirectOps + MaxFetchCalls

newFlightCall == [val |-> NoVal, err |-> NoErr, done |-> FALSE]

\* LoadOrCompute as a Load followed by a Store: a record already there is
\* overwritten.
LoadOrComputeRacy(fl, cs, key) ==
    [flights |-> [fl EXCEPT ![key] = Len(cs) + 1],
     calls |-> Append(cs, [val |-> NoVal, err |-> "nil", done |-> FALSE]),
     call |-> Len(cs) + 1, loaded |-> FALSE]

\* flights.LoadOrCompute(key, ...): the record found, or a new one stored,
\* in one atomic step of the map.
LoadOrCompute(fl, cs, key) ==
    IF fl[key] # Nil
      THEN [flights |-> fl, calls |-> cs, call |-> fl[key], loaded |-> TRUE]
      ELSE [flights |-> [fl EXCEPT ![key] = Len(cs) + 1],
            calls |-> Append(cs, newFlightCall),
            call |-> Len(cs) + 1, loaded |-> FALSE]

\* A leader that goes straight to the loader.
leaderNoRecheck(c, key, t) == [c |-> c, val |-> NoVal, ok |-> FALSE]

\* The leader's second lookup, before it invokes the loader.
leaderRecheck(c, key, t) == s3get(c, key, t)

\* A leader that publishes the value and leaves the error behind.
publishValueOnly(cs, call, val, err) == [cs EXCEPT ![call].val = val]

\* call.val, call.err = val, err
publish(cs, call, val, err) ==
    [cs EXCEPT ![call].val = val, ![call].err = err]

\* A call record that neither the map nor a goroutine references is garbage.
sweep(cs, fl, fc) ==
    [i \in DOMAIN cs |->
        IF (\E k \in DOMAIN fl : fl[k] = i) \/ (\E t \in DOMAIN fc : fc[t] = i)
          THEN cs[i] ELSE newFlightCall]

NoLocal == [val |-> NoVal, err |-> NoErr]

\* getSet calls entered so far, over all goroutines.
RECURSIVE Started(_)
Started(n) == IF n = 0 THEN 0 ELSE fcount[n] + Started(n - 1)

Returned(t, key, val, err) ==
    /\ fret' = [fret EXCEPT ![t] = [val |-> val, err |-> err, key |-> key]]
    /\ last' = [NoLast EXCEPT !.op = "return", !.key = key, !.val = val,
                              !.ok = (err = NoErr)]

\* getSet is entered: the first lookup; a hit returns at once.
FlightStart(t, key) ==
    /\ ~memory.panicked
    /\ pc[t] = "idle"
    /\ Started(NumFetchers) < MaxFetchCalls
    /\ fcount' = [fcount EXCEPT ![t] = @ + 1]
    /\ fkey' = [fkey EXCEPT ![t] = key]
    /\ LET r == s3get(memory, key, now)
       IN /\ memory' = r.c
          /\ IF r.ok
               THEN /\ Returned(t, key, r.val, NoErr)
                    /\ UNCHANGED pc
               ELSE /\ pc' = [pc EXCEPT ![t] = "compute"]
                    /\ last' = [NoLast EXCEPT !.op = "step"]
                    /\ UNCHANGED fret
    /\ UNCHANGED <<defaultTTL, now, flights, calls, fcall, fval, ops, fill>>
    /\ UNCHANGED flightHist
    /\ UNCHANGED auxVars

FlightCompute(t) ==
    /\ pc[t] = "compute"
    /\ LET r == LoadOrCompute(flights, calls, fkey[t])
       IN /\ flights' = r.flights
          /\ calls' = r.calls
          /\ fcall' = [fcall EXCEPT ![t] = r.call]
          /\ pc' = [pc EXCEPT ![t] = IF r.loaded THEN "wait" ELSE "recheck"]
    /\ last' = [NoLast EXCEPT !.op = "step"]
    /\ UNCHANGED <<memory, defaultTTL, now, fkey, fval, fret, fcount, ops, fill>>
    /\ UNCHANGED flightHist
    /\ UNCHANGED auxVars

\* A follower: call.wg.Wait() returns once the leader has signalled.
FlightWait(t) ==
    /\ pc[t] = "wait"
    /\ calls[fcall[t]].done
    /\ pc' = [pc EXCEPT ![t] = "idle"]
    /\ Returned(t, fkey[t], calls[fcall[t]].val, calls[fcall[t]].err)
    /\ fcall' = [fcall EXCEPT ![t] = Nil]
    /\ calls' = sweep(calls, flights, fcall')
    /\ UNCHANGED <<memory, defaultTTL, now, flights, fkey, fval, fcount, ops, fill>>
    /\ UNCHANGED flightHist
    /\ UNCHANGED auxVars

\* The leader: a hit on the second lookup is published without a load; on a
\* miss loader() is invoked and runs until FlightLoaded.
FlightRecheck(t) ==
    /\ ~memory.panicked
    /\ pc[t] = "recheck"
    /\ LET r == leaderRecheck(memory, fkey[t], now)
       IN /\ memory' = r.c
          /\ IF r.ok
               THEN /\ fval' = [fval EXCEPT ![t] = [val |-> r.val, err |-> NoErr]]
                    /\ pc' = [pc EXCEPT ![t] = "remove"]
                    /\ UNCHANGED loaded
               ELSE /\ pc' = [pc EXCEPT ![t] = "loading"]
                    /\ loaded' = [loaded EXCEPT ![fkey[t]] = Append(@, t)]
                    /\ UNCHANGED fval
    /\ last' = [NoLast EXCEPT !.op = IF memory'.panicked THEN "panic" ELSE "step"]
    /\ UNCHANGED <<defaultTTL, now, flights, calls, fkey, fcall, fret, fcount,
                   ops, fill, directVals, disturbed, loaderFailed>>
    /\ UNCHANGED auxVars

\* loader() returns; a value is stored under the effective TTL.
FlightLoaded(t, err) ==
    /\ ~memory.panicked
    /\ pc[t] = "loading"
    /\ fval' = [fval EXCEPT ![t] = [val |-> IF err = NoErr THEN LoaderVal(t)
                                             ELSE FailVal(t),
                                    err |-> err]]
    /\ memory' = storeLoaded(memory, fkey[t], fval'[t].val, err, defaultTTL, now)
    /\ disturbed' = disturbed \cup (Lost(memory, memory') \cap FlightKeys)
    /\ loaderFailed' = (loaderFailed \/ err # NoErr)
    /\ pc' = [pc EXCEPT ![t] = "remove"]
    /\ last' = [NoLast EXCEPT !.op = IF memory'.panicked THEN "panic" ELSE "step"]
    /\ UNCHANGED <<defaultTTL, now, flights, calls, fkey, fcall, fret, fcount,
                   ops, fill, loaded, directVals>>
    /\ UNCHANGED auxVars

\* call.val, call.err = val, err; c.flights.Delete(key)
FlightRemove(t) ==
    /\ pc[t] = "remove"
    /\ calls' = publish(calls, fcall[t], fval[t].val, fval[t].err)
    /\ flights' = [flights EXCEPT ![fkey[t]] = Nil]
    /\ pc' = [pc EXCEPT ![t] = "signal"]
    /\ last' = [NoLast EXCEPT !.op = "step"]
    /\ UNCHANGED <<memory, defaultTTL, now, fkey, fcall, fval, fret, fcount,
                   ops, fill>>
    /\ UNCHANGED flightHist
    /\ UNCHANGED auxVars

\* call.wg.Done(); return val, err
FlightSignal(t) ==
    /\ pc[t] = "signal"
    /\ pc' = [pc EXCEPT ![t] = "idle"]
    /\ Returned(t, fkey[t], fval[t].val, fval[t].err)
    /\ fcall' = [fcall EXCEPT ![t] = Nil]
    /\ fval' = [fval EXCEPT ![t] = NoLocal]
    /\ calls' = sweep([calls EXCEPT ![fcall[t]].done = TRUE], flights, fcall')
    /\ UNCHANGED <<memory, defaultTTL, now, flights, fkey, fcount, ops, fill>>
    /\ UNCHANGED flightHist
    /\ UNCHANGED auxVars

DirectSet(key) ==
    /\ ~memory.panicked
    /\ Budget(MaxDirectOps)
    /\ memory' = cacheSet(memory, key, NextVal(memory, key), 0, defaultTTL, now)
    /\ last' = Done("set", key, NextVal(memory, key), TRUE, 0)
    /\ directVals' = [directVals EXCEPT ![key] = @ \cup {NextVal(memory, key)}]
    /\ disturbed' = disturbed \cup (Lost(memory, memory') \cap FlightKeys)
    /\ UNCHANGED <<defaultTTL, now, fill, loaded, loaderFailed>>
    /\ UNCHANGED flightVars
    /\ UNCHANGED auxVars

DirectDelete(key) ==
    /\ ~memory.panicked
    /\ Budget(MaxDirectOps)
    /\ memory' = s3del(memory, key)
    /\ last' = Done("delete", key, NoVal, FALSE, 0)
    /\ disturbed' = disturbed \cup {key}
    /\ UNCHANGED <<defaultTTL, now, fill, loaded, directVals, loaderFailed>>
    /\ UNCHANGED flightVars
    /\ UNCHANGED auxVars

NextFlight ==
    \/ \E t \in Fetchers, k \in FlightKeys : FlightStart(t, k)
    \/ \E t \in Fetchers : FlightCompute(t)
    \/ \E t \in Fetchers : FlightWait(t)
    \/ \E t \in Fetchers : FlightRecheck(t)
    \/ \E t \in Fetchers, err \in {NoErr, LoaderErr} : FlightLoaded(t, err)
    \/ \E t \in Fetchers : FlightRemove(t)
    \/ \E t \in Fetchers : FlightSignal(t)
    \/ \E k \in FlightKeys : DirectSet(k)
    \/ \E k \in FlightKeys : DirectDelete(k)

SpecFlight == Init /\ [][NextFlight]_vars

\* ------------------------------------------------------------ loader panic
\* loader() panics: getSet has no deferred call, so the panic unwinds through
\* it and nothing after the loader call runs.  The caller recovers and the
\* goroutine is free to fetch again.
FlightPanic(t) ==
    /\ pc[t] = "loading"
    /\ pc' = [pc EXCEPT ![t] = "idle"]
    /\ fret' = [fret EXCEPT ![t] = [val |-> NoVal, err |-> "panic", key |-> fkey[t]]]
    /\ last' = [NoLast EXCEPT !.op = "loaderPanic", !.key = fkey[t]]
    /\ fcall' = [fcall EXCEPT ![t] = Nil]
    /\ calls' = sweep(calls, flights, fcall')
    /\ UNCHANGED <<memory, defaultTTL, now, flights, fkey, fval, fcount, ops, fill>>
    /\ UNCHANGED flightHist
    /\ UNCHANGED auxVars

NextPanic ==
    \/ \E t \in Fetchers, k \in FlightKeys : FlightStart(t, k)
    \/ \E t \in Fetchers : FlightCompute(t)
    \/ \E t \in Fetchers : FlightWait(t)
    \/ \E t \in Fetchers : FlightRecheck(t)
    \/ \E t \in Fetchers, err \in {NoErr, LoaderErr} : FlightLoaded(t, err)
    \/ \E t \in Fetchers : FlightRemove(t)
    \/ \E t \in Fetchers : FlightSignal(t)
    \/ \E t \in Fetchers : FlightPanic(t)

SpecPanic == Init /\ [][NextPanic]_vars

\* ------------------------------------------------------------ shard lock
\* s.mu.Lock() and s.mu.Unlock() on the shard of key, by goroutine t.
lock(c, key, t) == [c EXCEPT !.shards[shardIdx(c, key)].mu = t]
unlock(c, key) == [c EXCEPT !.shards[shardIdx(c, key)].mu = Nil]
muOf(c, key) == c.shards[shardIdx(c, key)].mu

\* shard.get locking for every entry it finds.
getLocksAlways(st, key) == st.s.entries[key] # Nil

\* Whether shard.get goes through resurrectFromDeathRow, the one place where
\* it takes s.mu.
getLocks(st, key) ==
    st.s.entries[key] # Nil /\ st.heap[st.s.entries[key]].onDeathRow

\* A writer enters setWithHash ("setLocked") or delete ("deleteLocked") and
\* holds the lock until it has finished.
LockWriter(t, key, op) ==
    /\ ~memory.panicked
    /\ pc[t] = "idle"
    /\ muOf(memory, key) = Nil
    /\ Budget(MaxLockOps)
    /\ memory' = lock(memory, key, t)
    /\ pc' = [pc EXCEPT ![t] = op]
    /\ fkey' = [fkey EXCEPT ![t] = key]
    /\ last' = [NoLast EXCEPT !.op = "lock", !.key = key]
    /\ UNCHANGED <<defaultTTL, now, flights, calls, fcall, fval, fret, fcount, fill>>
    /\ UNCHANGED flightHist
    /\ UNCHANGED auxVars

LockedSet(t, ttl) ==
    /\ pc[t] = "setLocked"
    /\ CanSet(memory, fkey[t], MaxAlloc)
    /\ memory' = unlock(cacheSet(memory, fkey[t], NextVal(memory, fkey[t]), ttl,
                                 defaultTTL, now), fkey[t])
    /\ pc' = [pc EXCEPT ![t] = "idle"]
    /\ last' = Done("set", fkey[t], NextVal(memory, fkey[t]), TRUE, ttl)
    /\ UNCHANGED <<defaultTTL, now, flights, calls, fkey, fcall, fval, fret, fcount,
                   ops, fill>>
    /\ UNCHANGED flightHist
    /\ UNCHANGED auxVars

LockedDelete(t) ==
    /\ pc[t] = "deleteLocked"
    /\ memory' = unlock(s3del(memory, fkey[t]), fkey[t])
    /\ pc' = [pc EXCEPT ![t] = "idle"]
    /\ last' = Done("delete", fkey[t], NoVal, FALSE, 0)
    /\ UNCHANGED <<defaultTTL, now, flights, calls, fkey, fcall, fval, fret, fcount,
                   ops, fill>>
    /\ UNCHANGED flightHist
    /\ UNCHANGED auxVars

\* A get by another goroutine: it waits for the lock only on the way through
\* resurrectFromDeathRow.
LockGet(key) ==
    /\ getLocks(View(memory, shardIdx(memory, key)), key) => muOf(memory, key) = Nil
    /\ GetOp(key) /\ Budget(MaxLockOps) /\ UNCHANGED fill

LockTick == TickOp /\ Budget(MaxLockOps) /\ UNCHANGED fill

NextLock ==
    \/ \E t \in Fetchers, k \in Keys, op \in {"setLocked", "deleteLocked"} :
          LockWriter(t, k, op)
    \/ \E t \in Fetchers, ttl \in TTLs : LockedSet(t, ttl)
    \/ \E t \in Fetchers : LockedDelete(t)
    \/ \E k \in Keys : LockGet(k)
    \/ LockTick

SpecLock == Init /\ [][NextLock]_vars

\* ------------------------------------------------------------ racing sets
\* Goroutines calling set at the same time, each with a value of its own:
\* the call waits at s.mu.Lock(), takes the lock, looks the key up in the
\* map, then updates the entry found or creates one, and unlocks.
SetVal(t) == 30 + t

canLockAlways(c, key) == TRUE

canLock(c, key) == muOf(c, key) = Nil

SameCall(t, key) ==
    /\ ~memory.panicked
    /\ pc[t] = "idle"
    /\ Budget(MaxSameOps)
    /\ pc' = [pc EXCEPT ![t] = "wantLock"]
    /\ fkey' = [fkey EXCEPT ![t] = key]
    /\ fval' = [fval EXCEPT ![t] = [val |-> SetVal(t), err |-> NoErr,
                                     absent |-> ~HasEntry(memory, key)]]
    /\ last' = [NoLast EXCEPT !.op = "step"]
    /\ UNCHANGED <<memory, defaultTTL, now, flights, calls, fcall, fret, fcount, fill>>
    /\ UNCHANGED flightHist
    /\ UNCHANGED auxVars

SameLock(t) ==
    /\ pc[t] = "wantLock"
    /\ canLock(memory, fkey[t])
    /\ memory' = lock(memory, fkey[t], t)
    /\ pc' = [pc EXCEPT ![t] = "setLoad"]
    /\ last' = [NoLast EXCEPT !.op = "lock", !.key = fkey[t]]
    /\ UNCHANGED <<defaultTTL, now, flights, calls, fkey, fcall, fval, fret, fcount,
                   ops, fill>>
    /\ UNCHANGED flightHist
    /\ UNCHANGED auxVars

SameLoad(t) ==
    /\ pc[t] = "setLoad"
    /\ getLocals' = [getLocals EXCEPT ![t] =
           [NoGet EXCEPT !.ent = memory.shards[shardIdx(memory, fkey[t])].entries[fkey[t]]]]
    /\ pc' = [pc EXCEPT ![t] = "setStore"]
    /\ last' = [NoLast EXCEPT !.op = "step"]
    /\ UNCHANGED <<memory, defaultTTL, now, flights, calls, fkey, fcall, fval, fret,
                   fcount, ops, fill, store>>
    /\ UNCHANGED flightHist
    /\ UNCHANGED unitVars

SameStore(t) ==
    /\ pc[t] = "setStore"
    /\ getLocals[t].ent = Nil => Len(memory.heap) < MaxAlloc
    /\ LET i == shardIdx(memory, fkey[t])
           exp == timeToNano(expiry(0, defaultTTL, now))
       IN memory' = unlock(collect(Lift(memory, i,
                        setAfterLoad(View(memory, i), fkey[t], fval[t].val, exp, 0,
                                     getLocals[t].ent))), fkey[t])
    /\ pc' = [pc EXCEPT ![t] = "idle"]
    /\ getLocals' = [getLocals EXCEPT ![t] = NoGet]
    /\ last' = Done("set", fkey[t], fval[t].val, TRUE, 0)
    /\ UNCHANGED <<defaultTTL, now, flights, calls, fkey, fcall, fval, fret, fcount,
                   ops, fill, store>>
    /\ UNCHANGED flightHist
    /\ UNCHANGED unitVars

NextSame ==
    \/ \E t \in Fetchers, k \in Keys : SameCall(t, k)
    \/ \E t \in Fetchers : SameLock(t)
    \/ \E t \in Fetchers : SameLoad(t)
    \/ \E t \in Fetchers : SameStore(t)
    \/ \E k \in Keys : LockGet(k)

SpecSame == Init /\ [][NextSame]_vars

\* ------------------------------------------------------------ racing gets
\* shard.get one shared-memory access at a time: the map, the flags and
\* freq are read, then freq.Add(1), peakFreq.Load() and peakFreq.Store().
\* Nothing of it is under the shard lock.  Sets run whole, under the lock.
\* The goroutines all get the same key; the sets are of any key.
RaceGetLoad(t, key) ==
    /\ ~memory.panicked
    /\ pc[t] = "idle"
    /\ LET ent == memory.shards[shardIdx(memory, key)].entries[key]
       IN IF /\ ent # Nil
             /\ ~memory.heap[ent].onDeathRow
             /\ ~isExpired(memory.heap[ent], now)
             /\ memory.heap[ent].freq < maxFreq
            THEN /\ pc' = [pc EXCEPT ![t] = "freqAdd"]
                 /\ getLocals' = [getLocals EXCEPT ![t] = [ent |-> ent, newFreq |-> 0]]
                 /\ last' = [NoLast EXCEPT !.op = "step"]
                 /\ UNCHANGED memory
            ELSE /\ LET r == s3get(memory, key, now)
                    IN /\ memory' = r.c
                       /\ last' = Done("get", key, r.val, r.ok, 0)
                 /\ UNCHANGED <<pc, getLocals>>
    /\ fkey' = [fkey EXCEPT ![t] = key]
    /\ UNCHANGED <<defaultTTL, now, flights, calls, fcall, fval, fret, fcount, ops,
                   fill, store>>
    /\ UNCHANGED flightHist
    /\ UNCHANGED unitVars

\* newFreq := ent.freq.Add(1)
RaceGetAdd(t) ==
    /\ pc[t] = "freqAdd"
    /\ LET ent == getLocals[t].ent
       IN /\ memory' = [memory EXCEPT !.heap[ent].freq = @ + 1]
          /\ getLocals' = [getLocals EXCEPT ![t].newFreq = memory.heap[ent].freq + 1]
    /\ pc' = [pc EXCEPT ![t] = "peakLoad"]
    /\ last' = [NoLast EXCEPT !.op = "step"]
    /\ UNCHANGED <<defaultTTL, now, flights, calls, fkey, fcall, fval, fret, fcount,
                   ops, fill, store>>
    /\ UNCHANGED flightHist
    /\ UNCHANGED unitVars

\* newFreq > ent.peakFreq.Load(); when it is not, get returns ent.value.
RaceGetPeak(t) ==
    /\ pc[t] = "peakLoad"
    /\ IF getLocals[t].newFreq > memory.heap[getLocals[t].ent].peakFreq
         THEN /\ pc' = [pc EXCEPT ![t] = "peakStore"]
              /\ last' = [NoLast EXCEPT !.op = "step"]
              /\ UNCHANGED getLocals
         ELSE /\ pc' = [pc EXCEPT ![t] = "idle"]
              /\ last' = [NoLast EXCEPT !.op = "get", !.key = fkey[t], !.ok = TRUE,
                                        !.val = memory.heap[getLocals[t].ent].value]
              /\ getLocals' = [getLocals EXCEPT ![t] = NoGet]
    /\ UNCHANGED <<memory, defaultTTL, now, flights, calls, fkey, fcall, fval, fret,
                   fcount, ops, fill, store>>
    /\ UNCHANGED flightHist
    /\ UNCHANGED unitVars

\* ent.peakFreq.Store(newFreq); return ent.value, true
RaceGetStore(t) ==
    /\ pc[t] = "peakStore"
    /\ memory' = [memory EXCEPT !.heap[getLocals[t].ent].peakFreq = getLocals[t].newFreq]
    /\ pc' = [pc EXCEPT ![t] = "idle"]
    /\ last' = [NoLast EXCEPT !.op = "get", !.key = fkey[t], !.ok = TRUE,
                              !.val = memory.heap[getLocals[t].ent].value]
    /\ getLocals' = [getLocals EXCEPT ![t] = NoGet]
    /\ UNCHANGED <<defaultTTL, now, flights, calls, fkey, fcall, fval, fret, fcount,
                   ops, fill, store>>
    /\ UNCHANGED flightHist
    /\ UNCHANGED unitVars

RaceSet(key) == SetOp(key, 0, MaxAlloc) /\ Budget(MaxRaceOps) /\ UNCHANGED fill

NextRace ==
    \/ \E t \in Fetchers, k \in FlightKeys : RaceGetLoad(t, k)
    \/ \E t \in Fetchers : RaceGetAdd(t)
    \/ \E t \in Fetchers : RaceGetPeak(t)
    \/ \E t \in Fetchers : RaceGetStore(t)
    \/ \E k \in Keys : RaceSet(k)

SpecRace == Init /\ [][NextRace]_vars

\* ------------------------------------------------------------ racing resurrections
\* Gets of key 1 by several goroutines, taken apart where get leaves the
\* lock-free path: a get that reads onDeathRow goes on to
\* resurrectFromDeathRow, which runs whole under the shard lock and looks the
\* key up again. Sets run whole under the lock, in between: fresh keys that
\* push entries through the death row, and key 1 again.
ReviveLoad(t) ==
    /\ ~memory.panicked
    /\ pc[t] = "idle"
    /\ Budget(MaxReviveOps)
    /\ IF HasEntry(memory, 1) /\ EntryOf(memory, 1).onDeathRow
         THEN /\ pc' = [pc EXCEPT ![t] = "resurrect"]
              /\ last' = [NoLast EXCEPT !.op = "step", !.key = 1]
              /\ UNCHANGED memory
         ELSE /\ LET r == s3get(memory, 1, now)
                 IN /\ memory' = r.c
                    /\ last' = Done("get", 1, r.val, r.ok, 0)
              /\ UNCHANGED pc
    /\ fkey' = [fkey EXCEPT ![t] = 1]
    /\ UNCHANGED <<defaultTTL, now, flights, calls, fcall, fval, fret, fcount, fill>>
    /\ UNCHANGED flightHist
    /\ UNCHANGED auxVars

ReviveLocked(t) ==
    /\ ~memory.panicked
    /\ pc[t] = "resurrect"
    /\ muOf(memory, 1) = Nil
    /\ LET i == shardIdx(memory, 1)
           r == resurrectFromDeathRow(View(memory, i), 1)
       IN /\ memory' = collect(Lift(memory, i, r.st))
          /\ last' = Done("get", 1, r.val, r.ok, 0)
    /\ pc' = [pc EXCEPT ![t] = "idle"]
    /\ UNCHANGED <<defaultTTL, now, flights, calls, fkey, fcall, fval, fret, fcount,
                   ops, fill>>
    /\ UNCHANGED flightHist
    /\ UNCHANGED auxVars

ReviveSet == SetOp(1, 0, Cardinality(ChurnKeys)) /\ Budget(MaxReviveOps) /\ UNCHANGED fill

NextRevive ==
    \/ ChurnSet
    \/ ReviveSet
    \/ \E t \in Fetchers : ReviveLoad(t)
    \/ \E t \in Fetchers : ReviveLocked(t)

SpecRevive == Init /\ [][NextRevive]_vars

\* ------------------------------------------------------------ tiered cache
\* TieredCache: the engine in front of a Store.  The store refuses one key
\* (ValidateKey) and any of its calls may fail, leaving what it holds.
BadKey == NumKeys + 1
TierKeys == Keys \cup {BadKey}
StoreErr == "store error"
InvalidKey == "invalid key"

ValidateKey(key) == IF key \in Keys THEN NoErr ELSE InvalidKey

storeSet(st, key, value, exp, fail) ==
    IF fail THEN st
    ELSE [st EXCEPT ![key] = [found |-> TRUE, val |-> value, expiry |-> exp]]

storeDelete(st, key, fail) ==
    IF fail THEN st
    ELSE [st EXCEPT ![key] = [found |-> FALSE, val |-> NoVal, expiry |-> 0]]

\* Set up to the memory update: the expiry, the key validation, memory.set.
tieredSetMemory(c, key, value, exp) ==
    IF ValidateKey(key) # NoErr
      THEN [c |-> c, err |-> InvalidKey]
      ELSE [c |-> s3set(c, key, value, timeToNano(exp)), err |-> NoErr]

\* Set undoing the memory update when the store write fails.
tieredSetStoreRollback(c, st, key, value, exp, fail) ==
    [c |-> IF fail THEN s3del(c, key) ELSE c,
     store |-> storeSet(st, key, value, exp, fail),
     err |-> IF fail THEN StoreErr ELSE NoErr]

\* Set from the store write on: Store.Set and the error it is wrapped into.
tieredSetStore(c, st, key, value, exp, fail) ==
    [c |-> c,
     store |-> storeSet(st, key, value, exp, fail),
     err |-> IF fail THEN StoreErr ELSE NoErr]

\* Get hiding a failed store read as a plain miss.
tieredGetSilent(c, st, key, t, fail) ==
    LET r == s3get(c, key, t)
    IN IF r.ok THEN [c |-> r.c, val |-> r.val, ok |-> TRUE, err |-> NoErr]
       ELSE IF ValidateKey(key) # NoErr
         THEN [c |-> r.c, val |-> NoVal, ok |-> FALSE, err |-> InvalidKey]
       ELSE IF fail \/ ~st[key].found
         THEN [c |-> r.c, val |-> NoVal, ok |-> FALSE, err |-> NoErr]
       ELSE [c |-> s3set(r.c, key, st[key].val, timeToNano(st[key].expiry)),
             val |-> st[key].val, ok |-> TRUE, err |-> NoErr]

tieredGet(c, st, key, t, fail) ==
    LET r == s3get(c, key, t)
    IN IF r.ok THEN [c |-> r.c, val |-> r.val, ok |-> TRUE, err |-> NoErr]
       ELSE IF ValidateKey(key) # NoErr
         THEN [c |-> r.c, val |-> NoVal, ok |-> FALSE, err |-> InvalidKey]
       ELSE IF fail
         THEN [c |-> r.c, val |-> NoVal, ok |-> FALSE, err |-> StoreErr]
       ELSE IF ~st[key].found
         THEN [c |-> r.c, val |-> NoVal, ok |-> FALSE, err |-> NoErr]
       ELSE [c |-> s3set(r.c, key, st[key].val, timeToNano(st[key].expiry)),
             val |-> st[key].val, ok |-> TRUE, err |-> NoErr]

\* Delete keeping the memory entry when the store refuses or fails.
tieredDeleteStoreFirst(c, st, key, fail) ==
    [c |-> IF ValidateKey(key) # NoErr \/ fail THEN c ELSE s3del(c, key),
     store |-> IF ValidateKey(key) # NoErr THEN st ELSE storeDelete(st, key, fail),
     err |-> IF ValidateKey(key) # NoErr THEN InvalidKey
             ELSE IF fail THEN StoreErr ELSE NoErr]

tieredDelete(c, st, key, fail) ==
    [c |-> s3del(c, key),
     store |-> IF ValidateKey(key) # NoErr THEN st ELSE storeDelete(st, key, fail),
     err |-> IF ValidateKey(key) # NoErr THEN InvalidKey
             ELSE IF fail THEN StoreErr ELSE NoErr]

Quiet == \A t \in Fetchers : pc[t] = "idle"

\* Calls of the tiered cache are made one at a time, by one goroutine.
TierCaller == 1

\* TieredCache.Set up to and including c.memory.set; an invalid key returns
\* the validation error before memory is touched.
TierSetMemory(t, key, ttl) ==
    /\ ~memory.panicked
    /\ Quiet
    /\ Budget(MaxTierOps)
    /\ ValidateKey(key) = NoErr => CanSet(memory, key, MaxAlloc)
    /\ LET exp == expiry(ttl, defaultTTL, now)
           value == NextVal(memory, key)
           r == tieredSetMemory(memory, key, value, exp)
       IN /\ memory' = r.c
          /\ fval' = [fval EXCEPT ![t] = [val |-> value, err |-> r.err, expiry |-> exp]]
          /\ pc' = [pc EXCEPT ![t] = IF r.err = NoErr THEN "storeSet" ELSE "idle"]
          /\ last' = [Done("tieredSet", key, value, FALSE, ttl) EXCEPT
                         !.op = IF memory'.panicked THEN "panic"
                                ELSE IF r.err = NoErr THEN "step" ELSE "tieredSet",
                         !.err = r.err]
    /\ fkey' = [fkey EXCEPT ![t] = key]
    /\ UNCHANGED <<defaultTTL, now, flights, calls, fcall, fret, fcount, fill>>
    /\ UNCHANGED flightHist
    /\ UNCHANGED auxVars

\* c.Store.Set and the return of TieredCache.Set.
TierSetStore(t, fail) ==
    /\ pc[t] = "storeSet"
    /\ LET r == tieredSetStore(memory, store, fkey[t], fval[t].val, fval[t].expiry, fail)
       IN /\ memory' = r.c
          /\ store' = r.store
          /\ last' = [Done("tieredSet", fkey[t], fval[t].val, r.err = NoErr, 0) EXCEPT
                         !.err = r.err]
    /\ pc' = [pc EXCEPT ![t] = "idle"]
    /\ fval' = [fval EXCEPT ![t] = NoLocal]
    /\ UNCHANGED <<defaultTTL, now, flights, calls, fkey, fcall, fret, fcount, ops,
                   fill, getLocals>>
    /\ UNCHANGED unitVars
    /\ UNCHANGED flightHist

TierGet(key, fail) ==
    /\ ~memory.panicked
    /\ Quiet
    /\ Budget(MaxTierOps)
    /\ LET r == tieredGet(memory, store, key, now, fail)
       IN /\ memory' = r.c
          /\ last' = [Done("tieredGet", key, r.val, r.ok, 0) EXCEPT
                         !.err = r.err, !.fault = fail]
    /\ UNCHANGED <<defaultTTL, now, fill, getLocals, store>>
    /\ UNCHANGED unitVars
    /\ UNCHANGED flightVars
    /\ UNCHANGED flightHist

TierDelete(key, fail) ==
    /\ ~memory.panicked
    /\ Quiet
    /\ Budget(MaxTierOps)
    /\ LET r == tieredDelete(memory, store, key, fail)
       IN /\ memory' = r.c
          /\ store' = r.store
          /\ last' = [Done("tieredDelete", key, NoVal, FALSE, 0) EXCEPT
                         !.err = r.err, !.fault = fail]
    /\ UNCHANGED <<defaultTTL, now, fill, getLocals>>
    /\ UNCHANGED unitVars
    /\ UNCHANGED flightVars
    /\ UNCHANGED flightHist

NextTiered ==
    \/ \E k \in TierKeys, ttl \in TTLs : TierSetMemory(TierCaller, k, ttl)
    \/ \E fail \in BOOLEAN : TierSetStore(TierCaller, fail)
    \/ \E k \in TierKeys, fail \in BOOLEAN : TierGet(k, fail)
    \/ \E k \in TierKeys, fail \in BOOLEAN : TierDelete(k, fail)

SpecTiered == Init /\ [][NextTiered]_vars

\* ------------------------------------------------------------ sizing
\* newS3FIFO's sizing for configured sizes around every multiple of 1024 up
\* to past the shard limit, under several settings of GOMAXPROCS.
Sizes == { sz \in { m * 1024 + d : m \in 0..MaxSizeK, d \in {0 - 1, 0, 1, 300} } : sz >= 1 }
Procs == 1..MaxProcs

InitSizing ==
    /\ InitCache(ConfigSize, 0)
    /\ \E size \in Sizes, procs \in Procs : built = Config(size, procs)

Construct ==
    /\ built.numShards = 0
    /\ built' = Sizing(built.size, built.procs)
    /\ UNCHANGED <<memory, defaultTTL, now, last, ops, fill, getLocals, store, seqs>>
    /\ UNCHANGED flightVars
    /\ UNCHANGED flightHist

NextSizing == Construct

SpecSizing == InitSizing /\ [][NextSizing]_vars

\* ------------------------------------------------------------ seqlock
\* storeValue: seq.Add(1); write the value, word by word; seq.Add(1).
\* loadValue: s1 := seq.Load(); retry if odd; read the value, word by word;
\* s2 := seq.Load(); retry if s2 differs from s1; give up after MaxSeqTries
\* retries.  Every step makes one access to the shared entry.
seqOdd(sq) == sq % 2 = 1

seqAnyStable(s1, s2) == TRUE

seqStable(s1, s2) == s1 = s2

Storing(t) == seqs.pc[t] \in {"word1", "word2", "release"}

restVars == <<memory, defaultTTL, now, last, fill, getLocals, store, built>>

StoreBegin(t) ==
    /\ seqs.pc[t] = "idle"
    /\ Budget(MaxSeqOps)
    /\ LET v == Cardinality(seqs.written)
       IN seqs' = [seqs EXCEPT !.seq = @ + 1,
                               !.pc[t] = "word1",
                               !.loc[t] = [NoSeqLocal EXCEPT !.v = v],
                               !.written = @ \cup {v},
                               !.overlapped = @ \/ \E u \in Fetchers \ {t} : Storing(u)]
    /\ UNCHANGED restVars
    /\ UNCHANGED flightVars
    /\ UNCHANGED flightHist

StoreWord(t) ==
    /\ seqs.pc[t] \in {"word1", "word2"}
    /\ seqs' = IF seqs.pc[t] = "word1"
                 THEN [seqs EXCEPT !.value[1] = seqs.loc[t].v, !.pc[t] = "word2"]
                 ELSE [seqs EXCEPT !.value[2] = seqs.loc[t].v, !.pc[t] = "release"]
    /\ UNCHANGED <<restVars, ops>>
    /\ UNCHANGED flightVars
    /\ UNCHANGED flightHist

StoreEnd(t) ==
    /\ seqs.pc[t] = "release"
    /\ seqs' = [seqs EXCEPT !.seq = @ + 1,
                            !.pc[t] = "idle",
                            !.lastDone = seqs.loc[t].v,
                            !.loc[t].ret = "store"]
    /\ UNCHANGED <<restVars, ops>>
    /\ UNCHANGED flightVars
    /\ UNCHANGED flightHist

LoadBegin(t) ==
    /\ seqs.pc[t] = "idle"
    /\ Budget(MaxSeqOps)
    /\ seqs' = [seqs EXCEPT !.pc[t] = "snap", !.loc[t] = NoSeqLocal]
    /\ UNCHANGED restVars
    /\ UNCHANGED flightVars
    /\ UNCHANGED flightHist

\* One failed attempt: another round, or (zero, false) when out of retries.
seqRetry(sq, t) ==
    IF sq.loc[t].tries < MaxSeqTries
      THEN [sq EXCEPT !.pc[t] = "snap", !.loc[t].tries = @ + 1]
      ELSE [sq EXCEPT !.pc[t] = "idle", !.loc[t].w = ZeroWords,
                      !.loc[t].ok = FALSE, !.loc[t].ret = "load"]

LoadSnap(t) ==
    /\ seqs.pc[t] = "snap"
    /\ seqs' = IF seqOdd(seqs.seq)
                 THEN seqRetry(seqs, t)
                 ELSE [seqs EXCEPT !.pc[t] = "read1", !.loc[t].s1 = seqs.seq]
    /\ UNCHANGED <<restVars, ops>>
    /\ UNCHANGED flightVars
    /\ UNCHANGED flightHist

LoadWord(t) ==
    /\ seqs.pc[t] \in {"read1", "read2"}
    /\ seqs' = IF seqs.pc[t] = "read1"
                 THEN [seqs EXCEPT !.loc[t].w[1] = seqs.value[1], !.pc[t] = "read2"]
                 ELSE [seqs EXCEPT !.loc[t].w[2] = seqs.value[2], !.pc[t] = "recheck"]
    /\ UNCHANGED <<restVars, ops>>
    /\ UNCHANGED flightVars
    /\ UNCHANGED flightHist

LoadCheck(t) ==
    /\ seqs.pc[t] = "recheck"
    /\ seqs' = IF seqStable(seqs.loc[t].s1, seqs.seq)
                 THEN [seqs EXCEPT !.pc[t] = "idle", !.loc[t].ok = TRUE,
                                   !.loc[t].ret = "load"]
                 ELSE seqRetry(seqs, t)
    /\ UNCHANGED <<restVars, ops>>
    /\ UNCHANGED flightVars
    /\ UNCHANGED flightHist

NextSeqlock ==
    \/ \E t \in Fetchers : StoreBegin(t)
    \/ \E t \in Fetchers : StoreWord(t)
    \/ \E t \in Fetchers : StoreEnd(t)
    \/ \E t \in Fetchers : LoadBegin(t)
    \/ \E t \in Fetchers : LoadSnap(t)
    \/ \E t \in Fetchers : LoadWord(t)
    \/ \E t \in Fetchers : LoadCheck(t)

SpecSeqlock == Init /\ [][NextSeqlock]_vars

\* ============================================================ properties
Stored(op) == op \in {"set", "fetchLoad"}

AtCapacity(c) == c.totalEntries >= c.capacity

\* What a set of an existing key must leave alone.
QueueFrame(c) ==
    [lists |-> [i \in DOMAIN c.shards |->
                   <<c.shards[i].small, c.shards[i].main,
                     c.shards[i].deathRow, c.shards[i].deathRowPos>>],
     links |-> [e \in DOMAIN c.heap |->
                   <<c.heap[e].key, c.heap[e].prev, c.heap[e].next,
                     c.heap[e].inSmall, c.heap[e].onDeathRow>>],
     size |-> s3len(c),
     total |-> c.totalEntries]

\* C1: after set(k, v) has completed, a get(k) issued at once returns
\* (v, true), wherever k's entry was before (absent, small, main, death row,
\* expired) and whether or not the engine was at capacity.
C1_SetThenGet ==
    last.op = "set" =>
        /\ s3get(memory, last.key, now).ok
        /\ s3get(memory, last.key, now).val = last.val

C1_Witness ==
    /\ last.op = "set"
    /\ last.was = "deathRow"
    /\ AtCapacity(memory)
    /\ s3get(memory, last.key, now).val = last.val

\* C2: a set of a key the map already holds leaves both queues (order and
\* length), the death row, the map size and the global counter as they were,
\* and a get that follows returns the new value.
C2_OverwriteInPlace ==
    [][(Stored(last'.op) /\ HasEntry(memory, last'.key)) =>
          /\ QueueFrame(memory') = QueueFrame(memory)
          /\ s3get(memory', last'.key, now').ok
          /\ s3get(memory', last'.key, now').val = last'.val
          /\ EntryOf(memory', last'.key).value = last'.val]_vars

C2_Witness ==
    /\ last.op = "set"
    /\ last.was = "main"
    /\ memory.shards[0].small.len > 0
    /\ EntryOf(memory, last.key).value = last.val

\* C3: after delete(k), get(k) misses, whichever state k's entry was in,
\* and k stays absent until a set or a fetch that stored a value for k.
C3_DeleteThenMiss ==
    [][/\ last'.op = "delete" => ~s3get(memory', last'.key, now').ok
       /\ \A k \in Keys :
             ~HasEntry(memory', k) => ~s3get(memory', k, now').ok
       /\ \A k \in Keys :
             (~HasEntry(memory, k) /\ HasEntry(memory', k)) =>
                 (Stored(last'.op) /\ last'.key = k)]_vars

C3_Witness ==
    /\ last.op = "delete"
    /\ last.was = "deathRow"
    /\ ~s3get(memory, last.key, now).ok

\* C4: flush returns the number of entries the maps held and leaves the
\* engine empty: len() = 0, every get misses, the queues and the death row
\* are empty, both bloom filters and the ghost ring are reset, the counter
\* is 0.
C4_FlushEmpties ==
    [][last'.op = "flush" =>
          /\ last'.val = Cardinality({ k \in AllKeys : HasEntry(memory, k) })
          /\ s3len(memory') = 0
          /\ \A k \in AllKeys : ~s3get(memory', k, now').ok
          /\ \A i \in DOMAIN memory'.shards :
                /\ memory'.shards[i].small = emptyList
                /\ memory'.shards[i].main = emptyList
                /\ \A j \in 0..(deathRowSize - 1) : memory'.shards[i].deathRow[j] = Nil
          /\ GhostEmpty(memory')
          /\ memory'.totalEntries = 0]_vars

C4_Witness ==
    /\ last.op = "flush"
    /\ last.was = "ghost"
    /\ last.val > ConfigSize
    /\ s3len(memory) = 0

\* C5: a key stored with a nonzero expiry misses on every get made after
\* the expiry, whatever happened to other keys in between.
C5_ExpiredMisses ==
    \A k \in Keys :
        (HasEntry(memory, k) /\ isExpired(EntryOf(memory, k), now)) =>
            ~s3get(memory, k, now).ok

C7_LenBound ==
    s3len(memory) <= memory.capacity + memory.numShards * deathRowSize

C9_OneLoaderRunning ==
    \A k \in FlightKeys :
        Cardinality({ t \in Fetchers : pc[t] = "loading" /\ fkey[t] = k }) <= 1

C9_Witness ==
    \E t, u \in Fetchers :
        /\ pc[t] = "loading"
        /\ pc[u] = "wait"
        /\ fkey[u] = fkey[t]
        /\ fcall[u] = fcall[t]

\* C10: fetches of k with loaders that succeed, racing with direct sets of
\* k, while nothing deletes or evicts k: the loader runs at most once, and
\* every fetch returns, without error, a value that was set or the value of
\* the loader that ran.
C10_FetchRacingSet ==
    \A k \in FlightKeys :
        (~loaderFailed /\ k \notin disturbed) =>
            /\ Len(loaded[k]) <= 1
            /\ \A t \in Fetchers :
                  fret[t].key = k =>
                      /\ fret[t].err = NoErr
                      /\ fret[t].val \in directVals[k]
                                          \cup { LoaderVal(loaded[k][i]) : i \in DOMAIN loaded[k] }

C10_Witness ==
    \E t, u \in Fetchers :
        /\ t # u
        /\ ~loaderFailed
        /\ fret[t].key = fret[u].key
        /\ fret[t].key \in FlightKeys \ disturbed
        /\ fret[t].val \in directVals[fret[t].key]
        /\ loaded[fret[t].key] = <<u>>
        /\ fret[u].val = LoaderVal(u)

\* The goroutines that are the leader of the record the map holds for k.
LeadersOf(k) ==
    { t \in Fetchers : /\ fkey[t] = k
                       /\ fcall[t] = flights[k]
                       /\ pc[t] \in {"recheck", "loading", "remove"} }

\* C11: a loader that returns an error stores nothing: the step leaves the
\* engine as it was, no entry ever holds the value of a failed load, and when
\* the failed leader returns its record is out of the map, so that the next
\* fetch of the key runs its own loader.
C11_LoaderErrorNotCached ==
    [][/\ \A t \in Fetchers :
             (pc[t] = "loading" /\ pc'[t] = "remove" /\ fval'[t].err # NoErr) =>
                 memory' = memory
       /\ \A k \in FlightKeys :
             HasEntry(memory', k) =>
                 EntryOf(memory', k).value \notin { FailVal(t) : t \in Fetchers }
       /\ \A t \in Fetchers :
             (pc[t] = "signal" /\ pc'[t] = "idle" /\ fret'[t].err # NoErr) =>
                 /\ flights'[fkey[t]] # fcall[t]
                 /\ flights'[fkey[t]] # Nil => LeadersOf(fkey[t])' # {}]_vars

C11_Witness ==
    \E t, u \in Fetchers :
        /\ t # u
        /\ fret[t].err = LoaderErr
        /\ fret[t].val = FailVal(t)
        /\ loaded[fret[t].key] = <<t, u>>
        /\ pc[u] = "loading"
        /\ ~HasEntry(memory, fret[t].key)

\* C12: a follower returns the pair its record holds, only after the leader
\* has signalled; the leader returns the pair it published, and what a
\* signalled record holds never changes while a goroutine still reads it.
C12_FollowerGetsLeaderResult ==
    [][/\ \A t \in Fetchers :
             (pc[t] = "wait" /\ pc'[t] = "idle") =>
                 /\ calls[fcall[t]].done
                 /\ fret'[t].val = calls[fcall[t]].val
                 /\ fret'[t].err = calls[fcall[t]].err
       /\ \A t \in Fetchers :
             (pc[t] = "signal" /\ pc'[t] = "idle") =>
                 /\ fret'[t].val = calls[fcall[t]].val
                 /\ fret'[t].err = calls[fcall[t]].err
                 /\ ~calls[fcall[t]].done
       /\ \A t \in Fetchers :
             (pc'[t] = "wait" /\ calls[fcall'[t]].done) =>
                 calls'[fcall'[t]] = calls[fcall'[t]]]_vars

C12_Witness ==
    \E t, u \in Fetchers :
        /\ t # u
        /\ fret[t].err = LoaderErr
        /\ fret[t] = fret[u]
        /\ loaded[fret[t].key] = <<u>>
        /\ fret[t].val = FailVal(u)

\* C13: once every fetch call has ended, whether it returned or its loader
\* panicked, no singleflight record is left in the map.
C13_NoRecordLeft ==
    (\A t \in Fetchers : pc[t] = "idle") => (\A k \in FlightKeys : flights[k] = Nil)

\* C14: the loader is invoked only by a leader whose lookup after the record
\* insertion missed; when the key's entry is live at that lookup, the leader
\* takes the entry's value, invokes no loader and returns that value.
C14_RecheckBeforeLoader ==
    [][/\ \A k \in FlightKeys :
             loaded'[k] # loaded[k] =>
                 \E t \in Fetchers :
                     /\ pc[t] = "recheck" /\ pc'[t] = "loading" /\ fkey[t] = k
                     /\ fcall[t] = flights[k]
                     /\ loaded'[k] = Append(loaded[k], t)
                     /\ Where(memory, k, now) \in {"absent", "expired"}
       /\ \A t \in Fetchers :
             (pc[t] = "recheck" /\ pc'[t] # "recheck"
                /\ Where(memory, fkey[t], now) \in {"small", "main", "deathRow"}) =>
                 /\ loaded' = loaded
                 /\ pc'[t] = "remove"
                 /\ fval'[t] = [val |-> EntryOf(memory, fkey[t]).value, err |-> NoErr]
       /\ \A t \in Fetchers :
             (pc[t] \in {"remove", "signal"} /\ pc'[t] # "idle") => fval'[t] = fval[t]
       /\ \A t \in Fetchers :
             (pc[t] = "signal" /\ pc'[t] = "idle") =>
                 /\ fret'[t].val = fval[t].val
                 /\ fret'[t].err = fval[t].err]_vars

C14_Witness ==
    \E t \in Fetchers :
        /\ pc[t] = "signal"
        /\ loaded[fkey[t]] = << >>
        /\ directVals[fkey[t]] # {}
        /\ fval[t].val \in directVals[fkey[t]]
        /\ fval[t].err = NoErr

\* C15: shard.get takes no lock for an entry that is in a queue and not
\* expired: such a get returns the entry's value and leaves every shard lock
\* as it found it, held or not.
C15_GetLockFree ==
    [][/\ \A k \in Keys :
             Where(memory', k, now') \in {"small", "main"} =>
                 ~getLocks(View(memory', shardIdx(memory', k)), k)
       /\ (last'.op = "get" /\ last'.was \in {"small", "main"}) =>
             /\ last'.ok
             /\ last'.val = EntryOf(memory, last'.key).value
             /\ \A i \in DOMAIN memory.shards :
                   memory'.shards[i].mu = memory.shards[i].mu]_vars

C15_Witness ==
    /\ last.op = "get"
    /\ last.ok
    /\ last.was \in {"small", "main"}
    /\ muOf(memory, last.key) # Nil
    /\ \E t \in Fetchers : pc[t] = "setLocked" /\ fkey[t] = last.key

\* C16: every entry of the map has 0 <= freq <= maxFreq.
C16_FreqBounded ==
    \A k \in Keys :
        HasEntry(memory, k) =>
            (EntryOf(memory, k).freq >= 0 /\ EntryOf(memory, k).freq <= maxFreq)

\* C17: with no get in progress, every entry of the map has
\* peakFreq >= freq.
C17_PeakAtLeastFreq ==
    (\A t \in Fetchers : pc[t] = "idle") =>
        \A k \in Keys :
            HasEntry(memory, k) => EntryOf(memory, k).peakFreq >= EntryOf(memory, k).freq

\* The entries linked in a queue: those met walking next from its head.
RECURSIVE Walk(_, _, _)
Walk(c, e, seen) ==
    IF e = Nil \/ e \in seen THEN seen ELSE Walk(c, c.heap[e].next, seen \cup {e})

LinkedIn(c, i, q) == Walk(c, c.shards[i][q].head, {})

OccupiedSlots(c, i) == { j \in 0..(deathRowSize - 1) : c.shards[i].deathRow[j] # Nil }

\* In how many places entry e of shard i is held.
Places(c, i, e) ==
    (IF e \in LinkedIn(c, i, "small") THEN 1 ELSE 0)
      + (IF e \in LinkedIn(c, i, "main") THEN 1 ELSE 0)
      + Cardinality({ j \in OccupiedSlots(c, i) : c.shards[i].deathRow[j] = e })

\* C18: between operations, every entry of a shard's map is linked in the
\* small queue, linked in the main queue or held in a death-row slot, and in
\* one of them only.
C18_OnePlace ==
    ~memory.panicked =>
        \A k \in AllKeys :
            HasEntry(memory, k) =>
                Places(memory, shardIdx(memory, k),
                       memory.shards[shardIdx(memory, k)].entries[k]) = 1

\* C19: between operations, in every shard small.len + main.len + the number
\* of occupied death-row slots is the size of the shard's map.
C19_CountsAgree ==
    ~memory.panicked =>
        \A i \in DOMAIN memory.shards :
            memory.shards[i].small.len + memory.shards[i].main.len
                + Cardinality(OccupiedSlots(memory, i))
              = entriesSize(memory.shards[i])

\* C20: when TieredCache.Set reaches the store write, memory already holds
\* the value; the store write and the return leave memory as it is, also
\* when the write fails: Set then returns the store's error and a Get of the
\* key returns the value from memory, without error and without the store.
C20_MemoryBeforeStore ==
    [][\A t \in Fetchers :
          (pc[t] = "storeSet" /\ pc'[t] = "idle") =>
              /\ HasEntry(memory, fkey[t])
              /\ EntryOf(memory, fkey[t]).value = fval[t].val
              /\ memory' = memory
              /\ last'.op = "tieredSet" /\ last'.key = fkey[t]
              /\ (store' = store /\ ~store[fkey[t]].found) => last'.err = StoreErr
              /\ last'.err = StoreErr =>
                    \A fail \in BOOLEAN :
                        LET g == tieredGet(memory', store', fkey[t], now', fail)
                        IN g.ok /\ g.val = fval[t].val /\ g.err = NoErr]_vars

C20_Witness ==
    /\ last.op = "tieredSet"
    /\ last.err = StoreErr
    /\ last.key \in Keys
    /\ ~store[last.key].found
    /\ tieredGet(memory, store, last.key, now, TRUE).ok
    /\ tieredGet(memory, store, last.key, now, TRUE).val = last.val

\* C21: TieredCache.Delete removes the key from memory in every case, also
\* when the store refuses the key or the store delete fails and Delete returns
\* an error: after it the key has no entry and a memory lookup of it misses.
C21_DeleteAlwaysFromMemory ==
    [][last'.op = "tieredDelete" =>
          /\ ~HasEntry(memory', last'.key)
          /\ ~s3get(memory', last'.key, now').ok
          /\ last'.fault /\ last'.key \in Keys => last'.err = StoreErr
          /\ last'.key \notin Keys => last'.err = InvalidKey]_vars

C21_Witness ==
    /\ last.op = "tieredDelete"
    /\ last.err = StoreErr
    /\ last.was \in {"small", "main"}
    /\ store[last.key].found
    /\ ~HasEntry(memory, last.key)

Pow2s == { Pow2(i) : i \in 0..bitsLen(maxShards) }
RoundDownPow2(x) == CHOOSE q \in Pow2s : q <= x /\ x < 2 * q

\* C23: for every configured capacity >= 1 and every parallelism >= 1 the
\* shard count is round_down_pow2(min(max(parallelism * 16, capacity / 256),
\* max(1, capacity / 1024), 2048)), a power of two between 1 and 2048, and the
\* per-shard capacity is the ceiling of capacity / shard count, so that the
\* shards together hold at least the capacity.
C23_ShardSizing ==
    built.numShards # 0 =>
        LET c == built.size
            n == built.numShards
            lim == Min2(Min2(Max2(built.procs * 16, c \div 256), Max2(1, c \div 1024)), 2048)
        IN /\ n = RoundDownPow2(lim)
           /\ n \in Pow2s /\ 1 <= n /\ n <= 2048
           /\ built.scap * n >= c
           /\ (built.scap - 1) * n < c

C23_Witness ==
    /\ built.numShards > 1
    /\ built.numShards < maxShards
    /\ built.size \div 1024 # built.numShards
    /\ built.size % built.numShards # 0

SeqIdle == \A t \in Fetchers : seqs.pc[t] = "idle"
LoadedWhole(t) ==
    /\ seqs.loc[t].w[1] = seqs.loc[t].w[2]
    /\ seqs.loc[t].w[1] \in seqs.written

LinkedOf(c, k) ==
    { e \in DOMAIN c.heap :
        /\ c.heap[e].key = k
        /\ e \in LinkedIn(c, shardIdx(c, k), "small") \cup LinkedIn(c, shardIdx(c, k), "main") }

\* C25: when goroutines set the same key at the same time, a key that was
\* absent gets exactly one entry: at any moment at most one entry of the key
\* is linked, in exactly one queue, and it is the one the map holds; the set
\* that finds no entry creates it and counts it once (no eviction being due),
\* a set that finds the entry creates and counts nothing; after each set a
\* get returns the value that set stored.
C25_OneEntryPerKey ==
    [][/\ \A k \in Keys :
            /\ Cardinality(LinkedOf(memory', k)) <= 1
            /\ \A e \in LinkedOf(memory', k) :
                  /\ memory'.shards[shardIdx(memory', k)].entries[k] = e
                  /\ Places(memory', shardIdx(memory', k), e) = 1
       /\ \A t \in Fetchers :
            (pc[t] = "setStore" /\ pc'[t] = "idle" /\ ~memory'.panicked) =>
               /\ HasEntry(memory, fkey[t]) =>
                     /\ memory'.totalEntries = memory.totalEntries
                     /\ EntryOf(memory', fkey[t]) =
                           [EntryOf(memory, fkey[t]) EXCEPT
                               !.value = EntryOf(memory', fkey[t]).value,
                               !.expiryNano = EntryOf(memory', fkey[t]).expiryNano,
                               !.freq = EntryOf(memory', fkey[t]).freq,
                               !.peakFreq = EntryOf(memory', fkey[t]).peakFreq]
                     /\ memory'.shards[shardIdx(memory, fkey[t])].entries[fkey[t]]
                          = memory.shards[shardIdx(memory, fkey[t])].entries[fkey[t]]
               /\ (~HasEntry(memory, fkey[t]) /\ ~AtCapacity(memory)) =>
                     /\ memory'.totalEntries = memory.totalEntries + 1
                     /\ Cardinality(LinkedOf(memory', fkey[t])) = 1
               /\ s3get(memory', fkey[t], now').ok
               /\ s3get(memory', fkey[t], now').val = fval[t].val]_vars

C25_Witness ==
    \E t, u \in Fetchers :
        /\ t # u
        /\ pc[t] = "idle" /\ pc[u] = "idle"
        /\ fkey[t] = fkey[u]
        /\ fval[t].val = SetVal(t) /\ fval[u].val = SetVal(u)
        /\ fval[t].absent /\ fval[u].absent
        /\ last.op = "set" /\ last.val = SetVal(t) /\ last.was = "small"
        /\ memory.totalEntries = 1
        /\ Cardinality(LinkedOf(memory, fkey[t])) = 1
        /\ EntryOf(memory, fkey[t]).value = SetVal(t)

\* ------------------------------------------------------------ ghost ring alone
\* The ring of shard 0 driven through its two methods: add with the hash of
\* a key and a peak that addToGhost would record, and lookup.
RingHashes == { Hash(k) : k \in Keys }

RingFreqs == {2, 3}

RingAdd(h, f) ==
    /\ Budget(MaxRingOps)
    /\ memory' = [memory EXCEPT !.shards[0].ghostFreqRng = ringAdd(@, h, f)]
    /\ last' = [NoLast EXCEPT !.op = "ringAdd", !.key = h, !.val = f]
    /\ UNCHANGED <<defaultTTL, now, fill>>
    /\ UNCHANGED flightVars
    /\ UNCHANGED flightHist
    /\ UNCHANGED auxVars

RingLookup(h) ==
    /\ last' = [NoLast EXCEPT !.op = "ringLookup", !.key = h,
                              !.val = ringLookup(memory.shards[0].ghostFreqRng, h).f,
                              !.ok = ringLookup(memory.shards[0].ghostFreqRng, h).ok]
    /\ UNCHANGED <<memory, defaultTTL, now, ops, fill>>
    /\ UNCHANGED flightVars
    /\ UNCHANGED flightHist
    /\ UNCHANGED auxVars

NextRing ==
    \/ \E h \in RingHashes, f \in RingFreqs : RingAdd(h, f)
    \/ \E h \in RingHashes : RingLookup(h)

SpecRing == Init /\ [][NextRing]_vars

\* ------------------------------------------------------------ stale slots
\* A cache one entry larger than the configured one, churned by sets of fresh
\* keys while key 1 is deleted on death row and set again.
InitStale == InitWith(ConfigSize + 1, 0)

StaleChurn ==
    /\ Len(memory.heap) + 1 \in StaleKeys
    /\ SetOp(Len(memory.heap) + 1, 0, Cardinality(StaleKeys))
    /\ UNCHANGED <<ops, fill>>

StaleDelete ==
    /\ HasEntry(memory, 1)
    /\ EntryOf(memory, 1).onDeathRow
    /\ DeleteOp(1) /\ Budget(MaxStaleOps) /\ UNCHANGED fill

StaleSet ==
    /\ SetOp(1, 0, Cardinality(StaleKeys)) /\ Budget(MaxStaleOps) /\ UNCHANGED fill

NextStale == StaleChurn \/ StaleDelete \/ StaleSet

SpecStale == InitStale /\ [][NextStale]_vars

\* ------------------------------------------------------------ eviction, step by step
\* setWithHash of an absent key at capacity, taken apart: goroutine 1 locks
\* the shard and prepares the entry, runs the eviction loops one pass at a
\* time, then enqueues the entry and unlocks. pc[1] is its position:
\* "evictFromSmall", "evictFromMain" (called by setWithHash),
\* "evictFromMainNested" (called by evictFromSmall) and "enqueue". The unlock
\* is manual, not deferred: a panic inside a loop leaves the lock held.
InitEvict == \E size \in {ConfigSize, ConfigSize + 1} : InitWith(size, 0)

\* setWithHash of an absent key would take the branch `if full`.
Evicts(c, key) == ~HasEntry(c, key) /\ isFull(View(c, shardIdx(c, key)))

\* setWithHash at capacity from the allocation of the entry to the ghost
\* check, before the eviction.
admitEntry(st, key, value, expNano, h) ==
    LET ent == Len(st.heap) + 1
        w == [st EXCEPT !.heap = Append(@, newEntry(key, value, expNano, h)),
                        !.s.warmupComplete = TRUE]
        inGhost == ghostHit(w, h)
        peak == ringLookup(w.s.ghostFreqRng, h)
    IN IF inGhost /\ peak.ok
         THEN [w EXCEPT !.heap[ent].inSmall = FALSE,
                        !.heap[ent].freq = peak.f,
                        !.heap[ent].peakFreq = peak.f]
         ELSE [w EXCEPT !.heap[ent].inSmall = ~inGhost]

\* The loop setWithHash calls at capacity.
roundEntry(st) ==
    IF st.s.main.len > 0 /\ st.s.small.len <= st.s.smallThresh THEN "evictFromMain"
    ELSE IF st.s.small.len > 0 THEN "evictFromSmall"
    ELSE "enqueue"

EvictFrame ==
    /\ UNCHANGED <<defaultTTL, now, flights, calls, fcall, fval, fret, fcount, fill>>
    /\ UNCHANGED flightHist
    /\ UNCHANGED auxVars

EvictEnter(key) ==
    /\ ~memory.panicked
    /\ pc[1] = "idle"
    /\ Evicts(memory, key)
    /\ CanSet(memory, key, Cardinality(StaleKeys))
    /\ LET i == shardIdx(memory, key)
           g == admitEntry(View(memory, i), key, NextVal(memory, key),
                           timeToNano(expiry(0, defaultTTL, now)), Hash(key))
       IN /\ memory' = lock(Lift(memory, i, g), key, 1)
          /\ pc' = [pc EXCEPT ![1] = roundEntry(g)]
    /\ fkey' = [fkey EXCEPT ![1] = key]
    /\ last' = [NoLast EXCEPT !.op = "lock", !.key = key]
    /\ EvictFrame

\* A fresh key arrives at capacity.
EvictEnterChurn ==
    /\ Len(memory.heap) + 1 \in StaleKeys
    /\ EvictEnter(Len(memory.heap) + 1)
    /\ UNCHANGED ops

\* Key 1 comes back at capacity.
EvictEnterSet ==
    /\ Len(memory.heap) + 1 # 1
    /\ EvictEnter(1)
    /\ Budget(MaxStaleOps)

\* The position after a loop has returned.
EvictStepTo(st, to) ==
    /\ memory' = Lift(memory, shardIdx(memory, fkey[1]), st)
    /\ pc' = [pc EXCEPT ![1] = IF st.panic THEN pc[1] ELSE to]
    /\ last' = [NoLast EXCEPT !.op = IF st.panic THEN "panic" ELSE "step",
                              !.key = fkey[1]]
    /\ UNCHANGED <<fkey, ops>>
    /\ EvictFrame

\* One test of evictFromSmall's loop condition and, when it holds, one pass
\* of the loop.
EvictSmallStep ==
    /\ ~memory.panicked
    /\ pc[1] = "evictFromSmall"
    /\ LET st == View(memory, shardIdx(memory, fkey[1]))
       IN IF ~(st.s.small.len > 0) THEN EvictStepTo(st, "enqueue")
          ELSE IF st.s.small.head = Nil
                 THEN EvictStepTo([st EXCEPT !.panic = TRUE], "evictFromSmall")
          ELSE LET r == smallIter(st)
               IN EvictStepTo(r.st,
                              IF r.done THEN "enqueue"
                              ELSE IF r.st.s.main.len > mcapOf(r.st)
                                     THEN "evictFromMainNested"
                                     ELSE "evictFromSmall")

\* The same for evictFromMain, which returns to its caller.
EvictMainStep ==
    /\ ~memory.panicked
    /\ pc[1] \in {"evictFromMain", "evictFromMainNested"}
    /\ LET st == View(memory, shardIdx(memory, fkey[1]))
           back == IF pc[1] = "evictFromMain" THEN "enqueue" ELSE "evictFromSmall"
       IN IF ~(st.s.main.len > 0) THEN EvictStepTo(st, back)
          ELSE IF st.s.main.head = Nil
                 THEN EvictStepTo([st EXCEPT !.panic = TRUE], pc[1])
          ELSE LET r == mainIter(st)
               IN EvictStepTo(r.st, IF r.done THEN back ELSE pc[1])

\* The rest of setWithHash: enqueue the entry, store it in the map, count
\* it, unlock. What the round evicted stays on the heap until the next
\* operation reclaims it.
EvictLeave ==
    /\ ~memory.panicked
    /\ pc[1] = "enqueue"
    /\ LET i == shardIdx(memory, fkey[1])
           st == View(memory, i)
           ent == Len(st.heap)
           b == pushBack(st, IF st.heap[ent].inSmall THEN "small" ELSE "main", ent)
       IN memory' = unlock(Lift(memory, i, [b EXCEPT !.s.entries[fkey[1]] = ent,
                                                      !.total = @ + 1]),
                           fkey[1])
    /\ pc' = [pc EXCEPT ![1] = "idle"]
    /\ last' = [NoLast EXCEPT !.op = "set", !.key = fkey[1], !.ok = TRUE,
                              !.val = memory.heap[Len(memory.heap)].value]
    /\ UNCHANGED <<fkey, ops>>
    /\ EvictFrame

\* The operations of the stale-slot workload that run no eviction.
EvictChurn ==
    /\ pc[1] = "idle"
    /\ Len(memory.heap) + 1 \in StaleKeys
    /\ ~Evicts(memory, Len(memory.heap) + 1)
    /\ StaleChurn

EvictDelete == pc[1] = "idle" /\ StaleDelete

EvictSet == pc[1] = "idle" /\ ~Evicts(memory, 1) /\ StaleSet

EvictRun == EvictSmallStep \/ EvictMainStep \/ EvictLeave

NextEvict ==
    \/ EvictChurn
    \/ EvictDelete
    \/ EvictSet
    \/ EvictEnterChurn
    \/ EvictEnterSet
    \/ EvictSmallStep
    \/ EvictMainStep
    \/ EvictLeave

\* The goroutine inside setWithHash keeps running.
SpecEvict == InitEvict /\ [][NextEvict]_vars /\ WF_vars(EvictRun)

\* ------------------------------------------------------------ admission
\* The step is a set that admitted a key absent from the map.
Admits(k) ==
    /\ last'.op = "set" /\ last'.key = k
    /\ last' # last
    /\ ~HasEntry(memory, k)
    /\ HasEntry(memory', k)
    /\ ~memory'.panicked

ShardOfKey(c, k) == c.shards[shardIdx(c, k)]

Admitted(c, k) == ShardOfKey(c, k).entries[k]

InGhostOf(c, k) ==
    \/ BloomContains(ShardOfKey(c, k).ghostActive, Hash(k))
    \/ BloomContains(ShardOfKey(c, k).ghostAging, Hash(k))

InMainAfter(k) == Admitted(memory', k) \in LinkedIn(memory', shardIdx(memory', k), "main")

InSmallAfter(k) == Admitted(memory', k) \in LinkedIn(memory', shardIdx(memory', k), "small")

RingPeaks(r, h) ==
    { RingSlot(r, i).f : i \in { j \in 0..(ghostRingSize - 1) : RingSlot(r, j).h = h } }

\* C27: an entry admitted into main through a ghost hit starts with
\* freq = peakFreq = the peak the ghost frequency ring records for its hash
\* when the ring still holds it, and with freq = peakFreq = 0 otherwise.
C27_GhostRestoresPeak ==
    [][\A k \in ChurnKeys :
          (Admits(k) /\ InMainAfter(k)) =>
              LET e == memory'.heap[Admitted(memory', k)]
                  peaks == RingPeaks(ShardOfKey(memory, k).ghostFreqRng, Hash(k))
              IN /\ InGhostOf(memory, k)
                 /\ e.freq = e.peakFreq
                 /\ IF peaks = {} THEN e.freq = 0 ELSE e.freq \in peaks]_vars

\* A returning key whose peak of 2 was recorded at its eviction has just been
\* admitted into main with freq = peakFreq = 2.
C27_Witness ==
    /\ last.op = "set"
    /\ HasEntry(memory, last.key)
    /\ Admitted(memory, last.key) = Len(memory.heap)
    /\ Len(memory.heap) \in LinkedIn(memory, shardIdx(memory, last.key), "main")
    /\ EntryOf(memory, last.key).freq = 2
    /\ EntryOf(memory, last.key).peakFreq = 2
    /\ 2 \in RingPeaks(ShardOfKey(memory, last.key).ghostFreqRng, Hash(last.key))

\* ------------------------------------------------------------ eviction rounds
QueueOf(st, q) == Walk(st, st.s[q].head, {})

OnDeathRowOf(st) == { st.s.deathRow[j] : j \in 0..(deathRowSize - 1) } \ {Nil}

RoundKind(st) ==
    IF st.s.main.len > 0 /\ st.s.small.len <= st.s.smallThresh THEN "main"
    ELSE IF st.s.small.len > 0 THEN "small"
    ELSE "none"

RoundOf(st) ==
    CASE RoundKind(st) = "main" -> evictFromMain(st)
      [] RoundKind(st) = "small" -> evictFromSmall(st)
      [] OTHER -> st

\* The counters and flags of entry e agree in p and r.
SameEntry(p, r, e) ==
    /\ p.heap[e].key = r.heap[e].key
    /\ p.heap[e].freq = r.heap[e].freq
    /\ p.heap[e].peakFreq = r.heap[e].peakFreq
    /\ p.heap[e].inSmall = r.heap[e].inSmall
    /\ p.heap[e].onDeathRow = r.heap[e].onDeathRow

\* Shard state p is what round result r becomes when entry new of key k is
\* enqueued at the tail of a queue and counted.
EnqueuedAfter(p, r, k, new) ==
    /\ p.s.deathRow = r.s.deathRow
    /\ p.s.deathRowPos = r.s.deathRowPos
    /\ p.s.ghostActive = r.s.ghostActive
    /\ p.s.ghostAging = r.s.ghostAging
    /\ p.s.ghostFreqRng = r.s.ghostFreqRng
    /\ p.total = r.total + 1
    /\ [p.s.entries EXCEPT ![k] = Nil] = r.s.entries
    /\ QueueOf(p, "small") \ {new} = QueueOf(r, "small")
    /\ QueueOf(p, "main") \ {new} = QueueOf(r, "main")
    /\ p.s.small.len + p.s.main.len = r.s.small.len + r.s.main.len + 1
    /\ new \in {p.s.small.tail, p.s.main.tail}
    /\ new \notin OnDeathRowOf(p)
    /\ \A e \in QueueOf(r, "small") \cup QueueOf(r, "main") \cup OnDeathRowOf(r) :
          SameEntry(p, r, e)

\* C28: each admission of a new key while the engine is at capacity runs
\* exactly one eviction round before the new entry is enqueued: a main round
\* if main.len > 0 and small.len <= smallThresh, otherwise a small round if
\* small.len > 0, otherwise none.
C28_OneRoundBeforeEnqueue ==
    [][\A k \in ChurnKeys :
          (Admits(k) /\ AtCapacity(memory)) =>
              EnqueuedAfter(View(memory', shardIdx(memory, k)),
                            RoundOf(View(memory, shardIdx(memory, k))),
                            k, Admitted(memory', k))]_vars

\* A set has just admitted the newest entry of the heap while main and small
\* both held entries, and the entry that was main's head is still its head:
\* the round ran on small.
C28_Witness ==
    /\ last.op = "set"
    /\ HasEntry(memory, last.key)
    /\ Admitted(memory, last.key) = Len(memory.heap)
    /\ memory.totalEntries > memory.capacity
    /\ ShardOfKey(memory, last.key).main.len > 0
    /\ ShardOfKey(memory, last.key).small.tail = Len(memory.heap)
    /\ OnDeathRowOf(View(memory, shardIdx(memory, last.key))) # {}

\* ------------------------------------------------------------ eviction passes
\* The shard states at the head of the loop of the evictFromSmall that
\* starts in st.
RECURSIVE SmallHeads(_)
SmallHeads(st) ==
    IF st.panic \/ st.s.small.len <= 0 \/ st.s.small.head = Nil THEN {}
    ELSE LET r == smallIter(st)
         IN {st} \cup
            (IF r.done THEN {}
             ELSE SmallHeads(IF r.st.s.main.len > mcapOf(r.st)
                               THEN evictFromMain(r.st)
                               ELSE r.st))

\* The shard states at the head of the loop of the evictFromMain that
\* starts in st.
RECURSIVE MainHeads(_)
MainHeads(st) ==
    IF st.panic \/ st.s.main.len <= 0 \/ st.s.main.head = Nil THEN {}
    ELSE LET r == mainIter(st)
         IN {st} \cup (IF r.done THEN {} ELSE MainHeads(r.st))

\* The passes of small eviction made by the round of an admission into the
\* shard in state st.
SmallPasses(st) == IF RoundKind(st) = "small" THEN SmallHeads(st) ELSE {}

\* The passes of main eviction made by that round, those of the calls from
\* inside the small round included.
MainPasses(st) ==
    IF RoundKind(st) = "main" THEN MainHeads(st)
    ELSE UNION { IF ~smallIter(x).done /\ smallIter(x).st.s.main.len > mcapOf(x)
                   THEN MainHeads(smallIter(x).st)
                   ELSE {} : x \in SmallPasses(st) }

NotQueued(st, e) == e \notin QueueOf(st, "small") \cup QueueOf(st, "main")

\* Entry e went to the death-row slot that was next in x, leaving both queues.
SentToDeathRow(x, y, e) ==
    /\ y.s.deathRow[x.s.deathRowPos] = e
    /\ y.heap[e].onDeathRow
    /\ NotQueued(y, e)

\* One pass of small eviction from x: what became of the head.
SmallPassOK(x) ==
    LET e == x.s.small.head
        f == x.heap[e].freq
        r == smallIter(x)
        y == r.st
    IN /\ f >= 2 =>
            /\ ~r.done
            /\ e \notin QueueOf(y, "small")
            /\ y.s.main.tail = e /\ e \in QueueOf(y, "main")
            /\ y.heap[e].freq = 0
            /\ ~y.heap[e].inSmall
            /\ ~y.heap[e].onDeathRow
            /\ y.s.deathRow = x.s.deathRow
            /\ y.s.small.len = x.s.small.len - 1
            /\ y.s.main.len = x.s.main.len + 1
            /\ y.total = x.total
       /\ f < 2 =>
            /\ r.done
            /\ evictFromSmall(x) = y
            /\ SentToDeathRow(x, y, e)
            /\ y.heap[e].inSmall
            /\ y.s.small.len = x.s.small.len - 1
            /\ y.s.main.len = x.s.main.len
            /\ QueueOf(y, "main") = QueueOf(x, "main")

MainPassOK(x) ==
    LET e == x.s.main.head
        f == x.heap[e].freq
        r == mainIter(x)
        y == r.st
    IN /\ f > 0 =>
            /\ ~r.done
            /\ y.heap[e].freq = f - 1
            /\ y.s.main.tail = e /\ e \in QueueOf(y, "main")
            /\ ~y.heap[e].onDeathRow /\ ~y.heap[e].inSmall
            /\ y.heap[e].peakFreq = x.heap[e].peakFreq
            /\ y.s.deathRow = x.s.deathRow
            /\ y.s.entries = x.s.entries
            /\ y.s.main.len = x.s.main.len
            /\ QueueOf(y, "main") = QueueOf(x, "main")
            /\ y.total = x.total
       /\ (f = 0 /\ x.heap[e].peakFreq < 4) =>
            /\ r.done
            /\ evictFromMain(x) = y
            /\ SentToDeathRow(x, y, e)
            /\ y.s.main.len = x.s.main.len - 1
            /\ y.total = x.total - 1

\* C30: in every pass of main eviction a head with freq > 0 is not evicted
\* but re-enqueued at the tail of main with freq one lower, and a head with
\* freq = 0 and peakFreq < 4 is sent to the death row, which ends the round.
C30_MainEviction ==
    [][\A k \in ChurnKeys :
          (Admits(k) /\ AtCapacity(memory)) =>
              \A x \in MainPasses(View(memory, shardIdx(memory, k))) : MainPassOK(x)]_vars

\* After a set, main holds an entry whose freq is below its peak of 3 by one
\* second chance, and an entry with inSmall cleared lies on death row.
C30_Witness ==
    /\ last.op = "set"
    /\ \E e \in LinkedIn(memory, 0, "main") :
          /\ memory.heap[e].peakFreq = 3
          /\ memory.heap[e].freq = 2
    /\ \E e \in OnDeathRowOf(View(memory, 0)) :
          ~memory.heap[e].inSmall /\ memory.heap[e].freq = 0

\* ------------------------------------------------------------ hot-item demotion
\* One pass of main eviction from x over a head with freq 0 that was once
\* hot: what became of the head.
HotPassOK(x) ==
    LET e == x.s.main.head
        r == mainIter(x)
        y == r.st
    IN (x.heap[e].freq = 0 /\ x.heap[e].peakFreq >= 4) =>
          /\ r.done
          /\ evictFromMain(x) = y
          /\ e \notin QueueOf(y, "main")
          /\ y.s.small.tail = e /\ e \in QueueOf(y, "small")
          /\ y.heap[e].freq = 1
          /\ y.heap[e].inSmall
          /\ ~y.heap[e].onDeathRow
          /\ y.heap[e].peakFreq = x.heap[e].peakFreq
          /\ y.s.deathRow = x.s.deathRow
          /\ y.s.ghostActive = x.s.ghostActive
          /\ y.s.entries = x.s.entries
          /\ y.s.main.len = x.s.main.len - 1
          /\ y.s.small.len = x.s.small.len + 1
          /\ y.total = x.total

\* C31: in every pass of main eviction a head with freq = 0 and
\* peakFreq >= 4 is not evicted: it moves to the tail of small with freq 1
\* and inSmall set, the map still holds it, the death row and the ghost are
\* untouched and the global counter is unchanged; the pass ends the round.
C31_HotDemotion ==
    [][\A k \in ChurnKeys :
          (Admits(k) /\ AtCapacity(memory)) =>
              \A x \in MainPasses(View(memory, shardIdx(memory, k))) : HotPassOK(x)]_vars

\* An entry with inSmall set, freq 1 and a peak of 4 or more exists after a
\* set: only the demotion out of main leaves an entry of small one step above
\* zero under such a peak.
C31_Witness ==
    /\ last.op = "set"
    /\ \E e \in DOMAIN memory.heap :
          /\ memory.heap[e].key # 0
          /\ memory.heap[e].inSmall
          /\ memory.heap[e].freq = 1
          /\ memory.heap[e].peakFreq >= 4

\* ------------------------------------------------------------ resurrection
\* C32: a get of a key whose entry is on death row resurrects it: the entry
\* leaves its death-row slot, its flag is cleared, freq and peakFreq become
\* 3, it is enqueued at the tail of main, the global counter grows by one,
\* and the get returns the entry's value and true.
C32_Resurrection ==
    [][\A k \in Keys :
          (last'.op = "get" /\ last'.key = k /\ last' # last
             /\ HasEntry(memory, k) /\ EntryOf(memory, k).onDeathRow) =>
              LET i == shardIdx(memory, k)
                  e == Admitted(memory, k)
              IN /\ last'.ok
                 /\ last'.val = memory.heap[e].value
                 /\ e \in OnDeathRowOf(View(memory, i))
                 /\ e \notin OnDeathRowOf(View(memory', i))
                 /\ OnDeathRowOf(View(memory', i)) = OnDeathRowOf(View(memory, i)) \ {e}
                 /\ Admitted(memory', k) = e
                 /\ ~memory'.heap[e].onDeathRow
                 /\ ~memory'.heap[e].inSmall
                 /\ memory'.heap[e].freq = 3
                 /\ memory'.heap[e].peakFreq = 3
                 /\ memory'.heap[e].value = memory.heap[e].value
                 /\ memory'.shards[i].main.tail = e
                 /\ e \in LinkedIn(memory', i, "main")
                 /\ e \notin LinkedIn(memory', i, "small")
                 /\ memory'.shards[i].main.len = memory.shards[i].main.len + 1
                 /\ memory'.totalEntries = memory.totalEntries + 1]_vars

\* A get has just found its key on death row and brought it back into main.
C32_Witness ==
    /\ last.op = "get"
    /\ last.was = "deathRow"
    /\ last.ok
    /\ HasEntry(memory, last.key)
    /\ EntryOf(memory, last.key).freq = 3
    /\ Admitted(memory, last.key) \in LinkedIn(memory, shardIdx(memory, last.key), "main")
    /\ memory.totalEntries > memory.capacity

\* ------------------------------------------------------------ true eviction
\* The calls of sendToDeathRow made by the round of an admission into the
\* shard in state st: the shard as the call finds it, and the entry sent.
SmallSends(st) ==
    { [st |-> remove(x, "small", x.s.small.head), e |-> x.s.small.head] :
        x \in { z \in SmallPasses(st) : z.heap[z.s.small.head].freq < 2 } }

MainSends(st) ==
    { [st |-> remove(x, "main", x.s.main.head), e |-> x.s.main.head] :
        x \in { z \in MainPasses(st) :
                  /\ z.heap[z.s.main.head].freq = 0
                  /\ z.heap[z.s.main.head].peakFreq < 4 } }

Sends(st) == SmallSends(st) \cup MainSends(st)

SlotTaken(c) == c.st.s.deathRow[c.st.s.deathRowPos] # Nil

\* The occupant of the slot that call c is about to take.
Occupant(c) == c.st.heap[c.st.s.deathRow[c.st.s.deathRowPos]]

\* What call c does to the occupant of its slot, the ring apart: the
\* occupant's key leaves the map and its hash sits in the active filter, or
\* in the aging one when the add filled the active filter and rotated it.
EvictedOK(c) ==
    LET x == c.st
        old == x.s.deathRow[x.s.deathRowPos]
        y == sendToDeathRow(x, c.e)
        h == Occupant(c).hash
        added == IF BloomContains(x.s.ghostActive, h) THEN 0 ELSE 1
    IN /\ y.s.entries[Occupant(c).key] = Nil
       /\ ~shardGet(y, Occupant(c).key, now).ok
       /\ ~y.heap[old].onDeathRow
       /\ old \notin OnDeathRowOf(y)
       /\ y.s.deathRow[x.s.deathRowPos] = c.e
       /\ IF x.s.ghostActive.entries + added >= x.s.ghostCap
            THEN BloomContains(y.s.ghostAging, h) /\ y.s.ghostActive.entries = 0
            ELSE BloomContains(y.s.ghostActive, h)

RingAfter(c) == sendToDeathRow(c.st, c.e).s.ghostFreqRng

Recorded(c) ==
    RingAfter(c) = ringAdd(c.st.s.ghostFreqRng, Occupant(c).hash, Occupant(c).peakFreq)

GhostHashes == { Hash(k) : k \in AllKeys }

InGhostSt(st, h) ==
    BloomContains(st.s.ghostActive, h) \/ BloomContains(st.s.ghostAging, h)

\* The shard after the hashes of sequence q went to the ghost, in order.
RECURSIVE AddMany(_, _)
AddMany(st, q) ==
    IF q = << >> THEN st ELSE AddMany(addToGhost(st, Head(q), 0), Tail(q))

\* The sequences of fewer than n distinct hashes other than h.
RECURSIVE DistinctSeqs(_, _)
DistinctSeqs(H, n) ==
    IF n <= 1 THEN { << >> }
    ELSE LET shorter == DistinctSeqs(H, n - 1)
         IN shorter \cup
            UNION { { Append(q, g) : g \in H \ { q[i] : i \in 1..Len(q) } } :
                    q \in shorter }

\* C34: a hash added to the ghost by a true eviction is a ghost hit
\* (contained in active or aging) right after the eviction, even when its
\* own insertion rotated the filters; a hash of the active filter stays a
\* ghost hit across the next rotation; and the evicted hash stays a ghost hit
\* while fewer than ghostCap further distinct hashes are evicted in the
\* shard.
C34_GhostSurvivesOneRotation ==
    [][\A k \in AllKeys :
          (Admits(k) /\ AtCapacity(memory)) =>
              \A c \in Sends(View(memory, shardIdx(memory, k))) :
                  SlotTaken(c) =>
                      LET y == sendToDeathRow(c.st, c.e)
                          h == Occupant(c).hash
                      IN /\ InGhostSt(y, h)
                         /\ \A g \in GhostHashes :
                               BloomContains(c.st.s.ghostActive, g) => InGhostSt(y, g)
                         /\ \A q \in DistinctSeqs(GhostHashes \ {h}, y.s.ghostCap) :
                               InGhostSt(AddMany(y, q), h)]_vars

\* After a set the hash of key 1 is held by the aging filter only: it went
\* through one rotation and is still a ghost hit.
C34_Witness ==
    /\ last.op = "set"
    /\ ~HasEntry(memory, 1)
    /\ BloomContains(memory.shards[0].ghostAging, Hash(1))
    /\ ~BloomContains(memory.shards[0].ghostActive, Hash(1))
    /\ memory.shards[0].ghostActive.entries > 0

\* ------------------------------------------------------------ ring lookup
\* The slots of ring r that hold hash h.
RingHits(r, h) == { i \in 0..(ghostRingSize - 1) : RingSlot(r, i).h = h }

\* How many adds ago slot i of ring r was written.
RingAge(r, i) == (r.pos + ghostRingSize - 1 - i) % ghostRingSize

\* C35: as stated, lookup(hash) returns the frequency of the last matching
\* entry: when the hash was added more than once and both slots are still
\* present, the frequency of the most recent add; not-present when no slot
\* matches.
C35_LookupMostRecent ==
    [][(last'.op = "ringLookup" /\ last' # last) =>
          LET r == memory.shards[0].ghostFreqRng
              hits == RingHits(r, last'.key)
          IN IF hits = {} THEN ~last'.ok /\ last'.val = 0
             ELSE /\ last'.ok
                  /\ \E i \in hits :
                        /\ \A j \in hits : RingAge(r, i) <= RingAge(r, j)
                        /\ last'.val = RingSlot(r, i).f]_vars

\* C35: lookup(hash) returns the frequency of the first matching slot in
\* slot order, which, until the cursor wraps, is the oldest add of that hash
\* still in the ring; not-present when no slot matches.
C35_LookupFirstSlot ==
    [][(last'.op = "ringLookup" /\ last' # last) =>
          LET r == memory.shards[0].ghostFreqRng
              hits == RingHits(r, last'.key)
          IN IF hits = {} THEN ~last'.ok /\ last'.val = 0
             ELSE /\ last'.ok
                  /\ \E i \in hits :
                        /\ \A j \in hits : i <= j
                        /\ \A j \in hits : RingAge(r, i) >= RingAge(r, j)
                        /\ last'.val = RingSlot(r, i).f]_vars

\* A lookup has just answered for a hash the ring holds twice, with
\* different frequencies.
C35_Witness ==
    /\ last.op = "ringLookup"
    /\ last.ok
    /\ \E i, j \in RingHits(memory.shards[0].ghostFreqRng, last.key) :
          /\ i < j
          /\ RingSlot(memory.shards[0].ghostFreqRng, i).f
               # RingSlot(memory.shards[0].ghostFreqRng, j).f
          /\ last.val = RingSlot(memory.shards[0].ghostFreqRng, i).f

\* ------------------------------------------------------------ counter and queues
\* The number of entries linked in the small and main queues of shards 0..n.
RECURSIVE LinkedUpTo(_, _)
LinkedUpTo(c, n) ==
    IF n < 0 THEN 0
    ELSE Cardinality(LinkedIn(c, n, "small")) + Cardinality(LinkedIn(c, n, "main"))
           + LinkedUpTo(c, n - 1)

\* C36: between operations the global entry counter is the number of entries
\* linked in the small and main queues of all shards, and it is never
\* negative.
C36_CounterIsLinked ==
    ~memory.panicked =>
        /\ memory.totalEntries = LinkedUpTo(memory, memory.numShards - 1)
        /\ memory.totalEntries >= 0

\* ------------------------------------------------------------ termination
\* What is left to do in the eviction round of shard i: an entry of main
\* weighs its freq plus one, an entry of small that the loop would promote
\* weighs two, and the position of goroutine 1 breaks ties.
RECURSIVE SumOver(_, _, _)
SumOver(c, S, w) ==
    IF S = {} THEN 0
    ELSE LET e == CHOOSE x \in S : TRUE
         IN w[c.heap[e].freq] + SumOver(c, S \ {e}, w)

RoundWork(c, i, at) ==
    3 * (SumOver(c, LinkedIn(c, i, "small"), [f \in 0..maxFreq |-> IF f < 2 THEN 0 ELSE 2])
           + SumOver(c, LinkedIn(c, i, "main"), [f \in 0..maxFreq |-> f + 1]))
      + (CASE at = "evictFromMainNested" -> 2
           [] at \in {"evictFromSmall", "evictFromMain"} -> 1
           [] OTHER -> 0)

\* Every pass of an eviction loop that does not panic ends the round or
\* lowers what is left to do: the loops cannot run for ever.
EvictionVariant ==
    [][(pc[1] \in {"evictFromSmall", "evictFromMain", "evictFromMainNested"}
          /\ ~memory'.panicked)
        => RoundWork(memory', shardIdx(memory, fkey[1]), pc'[1])
             < RoundWork(memory, shardIdx(memory, fkey[1]), pc[1])]_vars

\* C37: every eviction round terminates from every reachable shard state, so
\* that the set releases the shard lock and returns: a set that has locked
\* the shard to evict is never left unable to take its next step.
C37_RoundNeverStuck ==
    pc[1] # "idle" => ~memory.panicked

\* ------------------------------------------------------------ racing gets
\* A get that went for the resurrection of key 1 returns.
ReviveReturns(t) == pc[t] = "resurrect" /\ pc'[t] = "idle"

\* The entry was still awaiting eviction when the get took the lock.
StillOnDeathRow == HasEntry(memory, 1) /\ EntryOf(memory, 1).onDeathRow

\* The resurrection happens once: the get that finds the entry on death row
\* enqueues it in main and counts it; a get that comes too late touches
\* neither the queues nor the counter.
RevivedOnce ==
    [][\A t \in Fetchers :
          ReviveReturns(t) =>
              IF StillOnDeathRow
                THEN /\ memory'.totalEntries = memory.totalEntries + 1
                     /\ memory.shards[shardIdx(memory, 1)].entries[1]
                          \in LinkedIn(memory', shardIdx(memory, 1), "main")
                     /\ ~EntryOf(memory', 1).onDeathRow
                     /\ last'.ok /\ last'.val = EntryOf(memory, 1).value
                ELSE memory' = memory]_vars

\* C38: when gets race on the same death-row key, or a get races with the
\* death-row eviction of the key, the entry is enqueued in main and counted
\* at most once, and every such get returns not-found, or found with the
\* value stored in the entry: never found with a value that was not set.
C38_RacingGets ==
    [][\A t \in Fetchers :
          ReviveReturns(t) =>
              /\ memory'.totalEntries <= memory.totalEntries + 1
              /\ ~StillOnDeathRow => memory' = memory
              /\ last'.ok => /\ HasEntry(memory', 1)
                             /\ last'.val = EntryOf(memory', 1).value
                             /\ last'.val # NoVal]_vars

\* ------------------------------------------------------------ reachable entries
\* The entries shard i holds outside its map: linked in a queue or in a
\* death-row slot.
HeldBy(c, i) ==
    LinkedIn(c, i, "small") \cup LinkedIn(c, i, "main")
      \cup { c.shards[i].deathRow[j] : j \in OccupiedSlots(c, i) }

\* C39: between operations every entry linked in the small or main queue or
\* held in a death-row slot is the entry the shard's map holds for that
\* entry's key.
C39_HeldIsMapped ==
    ~memory.panicked =>
        \A i \in DOMAIN memory.shards :
            \A e \in HeldBy(memory, i) :
                memory.shards[i].entries[memory.heap[e].key] = e

\* C39, its consequence: the true eviction of a death-row slot removes from
\* the map no entry other than the slot's own.
EvictsOnlyOwn ==
    [][(last'.op = "set" /\ last' # last /\ ~memory.panicked) =>
          \A k \in AllKeys :
              (HasEntry(memory, k) /\ ~HasEntry(memory', k)) =>
                  \E i \in DOMAIN memory.shards :
                      \E j \in OccupiedSlots(memory, i) :
                          memory.shards[i].deathRow[j] = memory.shards[i].entries[k]]_vars

\* ------------------------------------------------------------ delete and the queues
\* Queue q of shard i as the sequence met walking next from its head.
RECURSIVE LinkSeq(_, _, _)
LinkSeq(c, e, seen) ==
    IF e = Nil \/ e \in seen THEN << >>
    ELSE << e >> \o LinkSeq(c, c.heap[e].next, seen \cup {e})

QueueSeq(c, i, q) == LinkSeq(c, c.shards[i][q].head, {})

\* head, tail and len of queue q of shard i agree with its links.
QueueConsistent(c, i, q) ==
    LET s == QueueSeq(c, i, q)
        l == c.shards[i][q]
    IN /\ l.len = Len(s)
       /\ l.head = (IF s = << >> THEN Nil ELSE s[1])
       /\ l.tail = (IF s = << >> THEN Nil ELSE s[Len(s)])

\* The queues of shard i after the step are those before it without entry
\* e, in the same order, with head, tail and len agreeing.
OnlyUnlinked(i, e) ==
    \A q \in Queues :
        /\ QueueSeq(memory', i, q) = SelectSeq(QueueSeq(memory, i, q), LAMBDA x : x # e)
        /\ QueueConsistent(memory', i, q)

\* The step is a delete of key k.
Deletes(k) == last'.op = "delete" /\ last'.key = k /\ last' # last

\* C40: delete(k) changes the small and main queues only by unlinking k's
\* own entry, whichever state that entry was in (small, main or death row);
\* delete of an absent key changes nothing.
C40_DeleteUnlinksOwn ==
    [][\A k \in Keys :
          Deletes(k) =>
              IF HasEntry(memory, k)
                THEN OnlyUnlinked(shardIdx(memory, k),
                                  memory.shards[shardIdx(memory, k)].entries[k])
                ELSE memory' = memory]_vars

\* The same for a key whose entry is linked in a queue, in a shard whose
\* queues are consistent, and for an absent key.
DeleteOfQueued ==
    [][\A k \in Keys :
          Deletes(k) =>
              IF HasEntry(memory, k)
                THEN (/\ memory.shards[shardIdx(memory, k)].entries[k]
                           \in LinkedIn(memory, shardIdx(memory, k),
                                        IF EntryOf(memory, k).inSmall THEN "small"
                                        ELSE "main")
                      /\ \A q \in Queues : QueueConsistent(memory, shardIdx(memory, k), q))
                       => OnlyUnlinked(shardIdx(memory, k),
                                       memory.shards[shardIdx(memory, k)].entries[k])
                ELSE memory' = memory]_vars

====
